---------------------------- MODULE Spec2Model ----------------------------
(***************************************************************************)
(* A model of pior's core: the source parser's extraction rules, the       *)
(* content-hash parse cache, the module resolver, the graph builder and    *)
(* the analyses run over the module graph.                                 *)
(*                                                                         *)
(* Text (paths, specifiers, glob patterns) is a sequence of tokens.  The   *)
(* delimiters the code looks at ("/", ".", "*") are tokens of their own;   *)
(* every other token stands for a run of ordinary characters.              *)
(***************************************************************************)
EXTENDS Integers, Sequences, FiniteSets, TLC

\* Option<T>: None, or Some(x).
None == <<>>
Some(x) == <<x>>
IsSome(o) == o # <<>>
Unwrap(o) == o[1]

\* Option::or: the first of two optional values that is present.
OrElse(a, b) == IF a # <<>> THEN a ELSE b

(***************************************************************************)
(* Text helpers (str::starts_with, str::ends_with, str::contains).         *)
(***************************************************************************)
StartsWith(s, p) ==
    /\ Len(p) <= Len(s)
    /\ SubSeq(s, 1, Len(p)) = p

EndsWith(s, p) ==
    /\ Len(p) <= Len(s)
    /\ SubSeq(s, Len(s) - Len(p) + 1, Len(s)) = p

StrContains(s, p) ==
    \E i \in 1..(Len(s) + 1) :
        /\ i + Len(p) - 1 <= Len(s)
        /\ SubSeq(s, i, i + Len(p) - 1) = p

HasToken(s, t) == \E i \in 1..Len(s) : s[i] = t

Drop(s, n) == SubSeq(s, n + 1, Len(s))

\* Index of the last occurrence of token t in s, 0 when there is none.
LastIndexOf(s, t) ==
    IF HasToken(s, t)
    THEN CHOOSE i \in 1..Len(s) : s[i] = t /\ \A j \in (i + 1)..Len(s) : s[j] # t
    ELSE 0

\* Index of the first occurrence of token t in s, 0 when there is none.
FirstIndexOf(s, t) ==
    IF HasToken(s, t)
    THEN CHOOSE i \in 1..Len(s) : s[i] = t /\ \A j \in 1..(i - 1) : s[j] # t
    ELSE 0

\* The pieces of s between occurrences of the separator token; i is the index
\* of the first separator.
RECURSIVE SplitOn(_, _)
SplitAt(s, sep, i) ==
    IF i = 0 THEN <<s>>
    ELSE <<SubSeq(s, 1, i - 1)>> \o SplitOn(Drop(s, i), sep)

SplitOn(s, sep) == SplitAt(s, sep, FirstIndexOf(s, sep))

RECURSIVE JoinWith(_, _)
JoinWith(parts, sep) ==
    IF Len(parts) = 0 THEN <<>>
    ELSE IF Len(parts) = 1 THEN parts[1]
    ELSE parts[1] \o <<sep>> \o JoinWith(Tail(parts), sep)

(***************************************************************************)
(* globset::Glob with the default options: "*" matches any run of text,    *)
(* separators included; a leading or inner "**/" matches any number of     *)
(* directories, none included; a trailing "/**" matches everything below.  *)
(***************************************************************************)
RECURSIVE GlobFrom(_, _, _)
GlobFrom(p, i, s) ==
    IF i > Len(p) THEN s = <<>>
    ELSE IF /\ i + 2 <= Len(p)
            /\ SubSeq(p, i, i + 2) = <<"*", "*", "/">>
            /\ (i = 1 \/ p[i - 1] = "/")
    THEN \/ GlobFrom(p, i + 3, s)
         \/ \E k \in 1..Len(s) : s[k] = "/" /\ GlobFrom(p, i + 3, Drop(s, k))
    ELSE IF /\ i + 1 = Len(p)
            /\ SubSeq(p, i, i + 1) = <<"*", "*">>
            /\ i > 1
            /\ p[i - 1] = "/"
    THEN Len(s) > 0
    ELSE IF p[i] = "*"
    THEN \E k \in 0..Len(s) : GlobFrom(p, i + 1, Drop(s, k))
    ELSE /\ Len(s) > 0
         /\ s[1] = p[i]
         /\ GlobFrom(p, i + 1, Tail(s))

GlobIsMatch(pattern, s) == GlobFrom(pattern, 1, s)

(***************************************************************************)
(* std::path.  A path is text; PathBuf compares by components, so "."      *)
(* components and repeated separators do not distinguish two paths, while  *)
(* ".." components do.  Paths are kept in that normal form.  Every path of *)
(* the model is absolute.                                                  *)
(***************************************************************************)
CurDir == <<".">>
ParentDir == <<".", ".">>

RECURSIVE KeepComponents(_)
KeepComponents(parts) ==
    IF parts = <<>> THEN <<>>
    ELSE IF Head(parts) = <<>> \/ Head(parts) = CurDir
         THEN KeepComponents(Tail(parts))
         ELSE <<Head(parts)>> \o KeepComponents(Tail(parts))

\* Path::components of an absolute path, the root left out.
Components(path) == KeepComponents(SplitOn(path, "/"))

FromComponents(comps) == <<"/">> \o JoinWith(comps, "/")

NormPath(path) == FromComponents(Components(path))

Front(s) == SubSeq(s, 1, Len(s) - 1)

Last(s) == s[Len(s)]

\* Path::parent: None for the root.
ParentOf(comps) == IF comps = <<>> THEN None ELSE Some(FromComponents(Front(comps)))

PathParent(path) == ParentOf(Components(path))

\* Path::join: an absolute argument replaces the base.
PathJoin(base, rel) ==
    IF StartsWith(rel, <<"/">>) THEN NormPath(rel)
    ELSE NormPath(base \o <<"/">> \o rel)

\* Path::file_name: None when the path ends in "..".
FileNameOf(comps) ==
    IF comps = <<>> \/ Last(comps) = ParentDir THEN None ELSE Some(Last(comps))

FileName(path) == FileNameOf(Components(path))

\* Path::file_stem of a file name; i is the index of its last dot.
StemAt(name, i) == IF i <= 1 THEN name ELSE SubSeq(name, 1, i - 1)

FileStem(name) == StemAt(name, LastIndexOf(name, "."))

\* Path::extension of a path: None when the file name has none.
ExtensionAt(name, i) == IF i <= 1 THEN None ELSE Some(Drop(name, i))

ExtensionOf(name) ==
    IF name = None THEN None ELSE ExtensionAt(name[1], LastIndexOf(name[1], "."))

PathExtension(path) == ExtensionOf(FileName(path))

\* Path::with_extension: unchanged when the path has no file name.
ReplaceExtension(path, name, ext) ==
    IF name = None THEN path
    ELSE FromComponents(Front(Components(path)) \o <<FileStem(name[1]) \o <<".">> \o ext>>)

WithExtension(path, ext) == ReplaceExtension(path, FileName(path), ext)

\* Path::strip_prefix(root).unwrap_or(path), as text.
RelativeTo(root, path) ==
    IF StartsWith(path, root \o <<"/">>) THEN Drop(path, Len(root) + 1) ELSE path

(***************************************************************************)
(* The file system: F is the set of regular files (absolute paths in       *)
(* normal form, free of "..").  A directory exists when a file lies        *)
(* below it.  The operating system resolves ".." against the directory     *)
(* tree when a path is looked up.                                          *)
(***************************************************************************)
DirExists(F, dir) ==
    \/ dir = <<"/">>
    \/ \E f \in F : StartsWith(f, dir \o <<"/">>)

RECURSIVE OsWalk(_, _, _)
OsWalk(F, comps, stack) ==
    IF comps = <<>> THEN Some(FromComponents(stack))
    ELSE IF Head(comps) = ParentDir
    THEN IF ~DirExists(F, FromComponents(stack)) THEN None
         ELSE OsWalk(F, Tail(comps), IF stack = <<>> THEN <<>> ELSE Front(stack))
    ELSE OsWalk(F, Tail(comps), Append(stack, Head(comps)))

OsResolve(F, path) == OsWalk(F, Components(path), <<>>)

\* Path::is_file, Path::is_dir and Path::exists; t is what the path resolves to.
IsFileAt(F, t) == t # None /\ t[1] \in F

IsFile(F, path) == IsFileAt(F, OsResolve(F, path))

IsDirAt(F, t) == t # None /\ DirExists(F, t[1])

IsDir(F, path) == IsDirAt(F, OsResolve(F, path))

ExistsAt(F, t) == t # None /\ (t[1] \in F \/ DirExists(F, t[1]))

PathExists(F, path) == ExistsAt(F, OsResolve(F, path))

(***************************************************************************)
(* The source parser.  The syntax tree swc hands back is the input: a      *)
(* module body is a sequence of module items, each a record tagged by its  *)
(* variant in the field t.  Spans are given as (line, col).                *)
(***************************************************************************)
\* parser/imports.rs: extract_import_decl
ImportedNameOf(spec, is_type_only) ==
    IF spec.t = "Named"
    THEN [name |-> IF IsSome(spec.imported) THEN Unwrap(spec.imported) ELSE spec.local,
          alias |-> IF IsSome(spec.imported) THEN Some(spec.local) ELSE None,
          is_type |-> spec.is_type_only \/ is_type_only]
    ELSE IF spec.t = "Default"
    THEN [name |-> "default", alias |-> Some(spec.local), is_type |-> is_type_only]
    ELSE [name |-> "*", alias |-> Some(spec.local), is_type |-> is_type_only]

extract_import_decl(decl) ==
    [specifier |-> decl.src,
     imported_names |->
        [i \in 1..Len(decl.specifiers) |-> ImportedNameOf(decl.specifiers[i], decl.type_only)],
     is_type_only |-> decl.type_only,
     is_side_effect |-> Len(decl.specifiers) = 0,
     line |-> decl.line,
     col |-> decl.col]

\* parser/imports.rs: extract_dynamic_import_from_expr; ExprsDynamicImports is its
\* loop over the arguments of a call.
RECURSIVE extract_dynamic_import_from_expr(_)
RECURSIVE ExprsDynamicImports(_)
extract_dynamic_import_from_expr(expr) ==
    IF expr.t = "Call"
    THEN IF expr.callee = "Import"
         THEN IF Len(expr.args) > 0 /\ expr.args[1].t = "LitStr"
              THEN <<[specifier |-> expr.args[1].value,
                      imported_names |-> <<[name |-> "*", alias |-> None, is_type |-> FALSE]>>,
                      is_type_only |-> FALSE,
                      is_side_effect |-> FALSE,
                      line |-> expr.line,
                      col |-> expr.col]>>
              ELSE <<>>
         ELSE ExprsDynamicImports(expr.args)
    ELSE IF expr.t = "Arrow"
    THEN IF expr.body.t = "BlockStmt" THEN <<>>
         ELSE extract_dynamic_import_from_expr(expr.body)
    ELSE IF expr.t = "Await" THEN extract_dynamic_import_from_expr(expr.arg)
    ELSE IF expr.t = "Paren" THEN extract_dynamic_import_from_expr(expr.expr)
    ELSE <<>>

ExprsDynamicImports(exprs) ==
    IF exprs = <<>> THEN <<>>
    ELSE extract_dynamic_import_from_expr(Head(exprs)) \o ExprsDynamicImports(Tail(exprs))

\* The loop over the declarators of a variable declaration.
RECURSIVE DeclsDynamicImports(_)
DeclsDynamicImports(decls) ==
    IF decls = <<>> THEN <<>>
    ELSE (IF IsSome(Head(decls).init)
          THEN extract_dynamic_import_from_expr(Unwrap(Head(decls).init))
          ELSE <<>>)
         \o DeclsDynamicImports(Tail(decls))

\* parser/imports.rs: extract_dynamic_imports; StmtsDynamicImports is its loop over
\* the statements of a block.
RECURSIVE extract_dynamic_imports(_)
RECURSIVE StmtsDynamicImports(_)
extract_dynamic_imports(stmt) ==
    IF stmt.t = "Expr" THEN extract_dynamic_import_from_expr(stmt.expr)
    ELSE IF stmt.t = "Decl"
    THEN IF stmt.decl.t = "Var" THEN DeclsDynamicImports(stmt.decl.decls) ELSE <<>>
    ELSE IF stmt.t = "Block" THEN StmtsDynamicImports(stmt.stmts)
    ELSE IF stmt.t = "If"
    THEN extract_dynamic_imports(stmt.cons)
         \o (IF IsSome(stmt.alt) THEN extract_dynamic_imports(Unwrap(stmt.alt)) ELSE <<>>)
    ELSE IF stmt.t = "Return"
    THEN IF IsSome(stmt.arg) THEN extract_dynamic_import_from_expr(Unwrap(stmt.arg)) ELSE <<>>
    ELSE <<>>

StmtsDynamicImports(stmts) ==
    IF stmts = <<>> THEN <<>>
    ELSE extract_dynamic_imports(Head(stmts)) \o StmtsDynamicImports(Tail(stmts))

\* parser/imports.rs: extract_imports
RECURSIVE extract_imports(_)
extract_imports(body) ==
    IF body = <<>> THEN <<>>
    ELSE (IF Head(body).t = "Import" THEN <<extract_import_decl(Head(body))>>
          ELSE IF Head(body).t = "Stmt" THEN extract_dynamic_imports(Head(body).stmt)
          ELSE <<>>)
         \o extract_imports(Tail(body))

(***************************************************************************)
(* parser/exports.rs.  ExportKind values are the enum's variants; the      *)
(* text Debug prints for a variant is a different value (see the cache).   *)
(***************************************************************************)
EK_Function == "EK_Function"
EK_Class == "EK_Class"
EK_Variable == "EK_Variable"
EK_Const == "EK_Const"
EK_Let == "EK_Let"
EK_Type == "EK_Type"
EK_Interface == "EK_Interface"
EK_Enum == "EK_Enum"
EK_Namespace == "EK_Namespace"
EK_Default == "EK_Default"

ExportKind ==
    {EK_Function, EK_Class, EK_Variable, EK_Const, EK_Let, EK_Type, EK_Interface,
     EK_Enum, EK_Namespace, EK_Default}

MkExport(name, kind, is_type, is_default, line, col) ==
    [name |-> name, kind |-> kind, is_type |-> is_type, is_default |-> is_default,
     line |-> line, col |-> col]

\* The names a pattern's properties or elements bind, as extract_var_declarator
\* collects them.
RECURSIVE PropNames(_)
PropNames(props) ==
    IF props = <<>> THEN <<>>
    ELSE (IF Head(props).t = "KeyValue"
          THEN IF Head(props).key.t = "Ident" THEN <<Head(props).key.sym>> ELSE <<>>
          ELSE IF Head(props).t = "Assign" THEN <<Head(props).key>>
          ELSE <<>>)
         \o PropNames(Tail(props))

RECURSIVE ElemNames(_)
ElemNames(elems) ==
    IF elems = <<>> THEN <<>>
    ELSE (IF IsSome(Head(elems)) /\ Unwrap(Head(elems)).t = "Ident"
          THEN <<Unwrap(Head(elems)).sym>>
          ELSE <<>>)
         \o ElemNames(Tail(elems))

\* parser/exports.rs: extract_var_declarator
extract_var_declarator(decl, kind, line, col) ==
    LET names == IF decl.name.t = "Ident" THEN <<decl.name.sym>>
                 ELSE IF decl.name.t = "Object" THEN PropNames(decl.name.props)
                 ELSE IF decl.name.t = "Array" THEN ElemNames(decl.name.elems)
                 ELSE <<>>
    IN  [i \in 1..Len(names) |-> MkExport(names[i], kind, FALSE, FALSE, line, col)]

RECURSIVE VarDeclExports(_, _, _, _)
VarDeclExports(decls, kind, line, col) ==
    IF decls = <<>> THEN <<>>
    ELSE extract_var_declarator(Head(decls), kind, line, col)
         \o VarDeclExports(Tail(decls), kind, line, col)

\* parser/exports.rs: extract_export_decl
extract_export_decl(item) ==
    LET d == item.decl
    IN  IF d.t = "Fn"
        THEN <<MkExport(d.ident, EK_Function, FALSE, FALSE, item.line, item.col)>>
        ELSE IF d.t = "Class"
        THEN <<MkExport(d.ident, EK_Class, FALSE, FALSE, item.line, item.col)>>
        ELSE IF d.t = "Var"
        THEN VarDeclExports(d.decls,
                            IF d.kind = "const" THEN EK_Const
                            ELSE IF d.kind = "let" THEN EK_Let
                            ELSE EK_Variable,
                            item.line, item.col)
        ELSE IF d.t = "TsInterface"
        THEN <<MkExport(d.ident, EK_Interface, TRUE, FALSE, item.line, item.col)>>
        ELSE IF d.t = "TsTypeAlias"
        THEN <<MkExport(d.ident, EK_Type, TRUE, FALSE, item.line, item.col)>>
        ELSE IF d.t = "TsEnum"
        THEN <<MkExport(d.ident, EK_Enum, FALSE, FALSE, item.line, item.col)>>
        ELSE IF d.t = "TsModule"
        THEN <<MkExport(d.ident, EK_Namespace, TRUE, FALSE, item.line, item.col)>>
        ELSE <<>>

\* parser/exports.rs: extract_default_decl
extract_default_decl(item) ==
    LET d == item.decl
        name == IF d.t = "TsInterface" THEN d.ident
                ELSE IF IsSome(d.ident) THEN Unwrap(d.ident)
                ELSE "default"
        kind == IF d.t = "Fn" THEN EK_Function
                ELSE IF d.t = "Class" THEN EK_Class
                ELSE EK_Interface
    IN  MkExport(name, kind, d.t = "TsInterface", TRUE, item.line, item.col)

\* parser/exports.rs: extract_default_expr
extract_default_expr(item) ==
    MkExport("default", EK_Default, FALSE, TRUE, item.line, item.col)

\* parser/exports.rs: extract_named_export
RECURSIVE NamedExports(_, _)
NamedExports(specs, item) ==
    IF specs = <<>> THEN <<>>
    ELSE (IF Head(specs).t = "Named"
          THEN <<MkExport(IF IsSome(Head(specs).exported)
                          THEN Unwrap(Head(specs).exported)
                          ELSE Head(specs).orig,
                          EK_Variable,
                          Head(specs).is_type_only \/ item.type_only,
                          FALSE, item.line, item.col)>>
          ELSE <<>>)
         \o NamedExports(Tail(specs), item)

extract_named_export(item) == NamedExports(item.specifiers, item)

\* parser/exports.rs: extract_named_re_export
ReExportedNameOf(spec, type_only) ==
    IF spec.t = "Named"
    THEN [name |-> spec.orig, alias |-> spec.exported,
          is_type |-> spec.is_type_only \/ type_only]
    ELSE IF spec.t = "Namespace"
    THEN [name |-> "*", alias |-> Some(spec.name), is_type |-> type_only]
    ELSE [name |-> "default", alias |-> None, is_type |-> type_only]

extract_named_re_export(item) ==
    [specifier |-> Unwrap(item.src),
     exported_names |->
        [i \in 1..Len(item.specifiers) |-> ReExportedNameOf(item.specifiers[i], item.type_only)],
     is_type_only |-> item.type_only,
     line |-> item.line,
     col |-> item.col]

\* The ModuleDecl::ExportAll arm of extract_exports.
ExportAllReExport(item) ==
    [specifier |-> item.src,
     exported_names |-> <<[name |-> "*", alias |-> None, is_type |-> item.type_only]>>,
     is_type_only |-> item.type_only,
     line |-> item.line,
     col |-> item.col]

\* parser/exports.rs: extract_exports, its two results.
RECURSIVE ExportsOf(_)
ExportsOf(body) ==
    IF body = <<>> THEN <<>>
    ELSE LET item == Head(body)
         IN  (IF item.t = "ExportDecl" THEN extract_export_decl(item)
              ELSE IF item.t = "ExportDefaultDecl" THEN <<extract_default_decl(item)>>
              ELSE IF item.t = "ExportDefaultExpr" THEN <<extract_default_expr(item)>>
              ELSE IF item.t = "ExportNamed" /\ ~IsSome(item.src)
              THEN extract_named_export(item)
              ELSE IF item.t = "TsExportAssignment"
              THEN <<MkExport("default", EK_Default, FALSE, TRUE, item.line, item.col)>>
              ELSE <<>>)
             \o ExportsOf(Tail(body))

RECURSIVE ReExportsOf(_)
ReExportsOf(body) ==
    IF body = <<>> THEN <<>>
    ELSE LET item == Head(body)
         IN  (IF item.t = "ExportNamed" /\ IsSome(item.src)
              THEN <<extract_named_re_export(item)>>
              ELSE IF item.t = "ExportAll" THEN <<ExportAllReExport(item)>>
              ELSE <<>>)
             \o ReExportsOf(Tail(body))

\* parser/typescript.rs: extract_module_info
extract_module_info(body) ==
    [imports |-> extract_imports(body),
     exports |-> ExportsOf(body),
     re_exports |-> ReExportsOf(body)]

\* parser/typescript.rs: get_syntax_for_file; ext is the extension, empty when the
\* path has none.  An extension never holds a dot, so dts is never set.
SyntaxFor(ext) ==
    IF ext \in {<<"ts">>, <<"mts">>, <<"cts">>}
    THEN [typescript |-> TRUE, jsx |-> FALSE, dts |-> ext = <<"d", ".", "ts">>]
    ELSE IF ext = <<"tsx">>
    THEN [typescript |-> TRUE, jsx |-> TRUE, dts |-> FALSE]
    ELSE [typescript |-> FALSE, jsx |-> TRUE, dts |-> FALSE]

get_syntax_for_file(path) == SyntaxFor(OrElse(PathExtension(path), Some(<<>>))[1])

(***************************************************************************)
(* A source text: text identifies its bytes, utf8 says whether they are    *)
(* valid UTF-8, body is the module it parses to (None: a syntax error),    *)
(* uses_ts and uses_jsx say which syntax it needs.  parse_source fails     *)
(* when swc's parse_module fails.                                          *)
(***************************************************************************)
\* parser/typescript.rs: parse_source; the result is Some(ParsedModule) or None.
ParseWith(source, syntax) ==
    IF \/ ~IsSome(source.body)
       \/ (source.uses_ts /\ ~syntax.typescript)
       \/ (source.uses_jsx /\ ~syntax.jsx)
    THEN None
    ELSE Some(extract_module_info(Unwrap(source.body)))

parse_source(source, path) == ParseWith(source, get_syntax_for_file(path))

(***************************************************************************)
(* resolver/node.rs.  A resolver is [root, base_url, paths]; paths is the  *)
(* alias map as the sequence of its (pattern, replacements) pairs in the   *)
(* order the map's iteration visits them.  fsys is the file system:        *)
(* files, the set of regular files, and manifests, the contents of the     *)
(* package.json files among them that decode ([module, main, types], each  *)
(* an Option).                                                             *)
(***************************************************************************)
EXTENSIONS ==
    <<(<<"ts">>), (<<"tsx">>), (<<"js">>), (<<"jsx">>), (<<"mjs">>), (<<"cjs">>),
      (<<"mts">>), (<<"cts">>)>>

INDEX_FILES ==
    <<(<<"index", ".", "ts">>), (<<"index", ".", "tsx">>), (<<"index", ".", "js">>),
      (<<"index", ".", "jsx">>), (<<"index", ".", "mjs">>), (<<"index", ".", "cjs">>)>>

\* The first path of the sequence that the test accepts, as an Option.
RECURSIVE FirstFile(_, _)
FirstFile(F, cands) ==
    IF cands = <<>> THEN None
    ELSE IF IsFile(F, Head(cands)) THEN Some(Head(cands))
    ELSE FirstFile(F, Tail(cands))

RECURSIVE FirstExisting(_, _)
FirstExisting(F, cands) ==
    IF cands = <<>> THEN None
    ELSE IF PathExists(F, Head(cands)) THEN Some(Head(cands))
    ELSE FirstExisting(F, Tail(cands))

\* The index-file loop shared by try_resolve_file and resolve_package_entry.
IndexLookup(F, dir) ==
    FirstExisting(F, [i \in 1..Len(INDEX_FILES) |-> PathJoin(dir, INDEX_FILES[i])])

\* resolver/node.rs: try_resolve_file
try_resolve_file(fsys, path) ==
    IF IsFile(fsys.files, path) THEN Some(path)
    ELSE OrElse(FirstFile(fsys.files,
                          [i \in 1..Len(EXTENSIONS) |-> WithExtension(path, EXTENSIONS[i])]),
         OrElse(FirstFile(fsys.files,
                          [i \in 1..Len(EXTENSIONS) |-> path \o <<".">> \o EXTENSIONS[i]]),
                IF IsDir(fsys.files, path) THEN IndexLookup(fsys.files, path) ELSE None))

\* resolver/node.rs: match_path_pattern
MatchPrefix(prefix, specifier) ==
    IF StartsWith(specifier, prefix) THEN Some(Drop(specifier, Len(prefix))) ELSE None

match_path_pattern(pattern, specifier) ==
    IF HasToken(pattern, "*")
    THEN MatchPrefix(SubSeq(pattern, 1, FirstIndexOf(pattern, "*") - 1), specifier)
    ELSE IF pattern = specifier THEN Some(<<>>)
    ELSE None

\* str::replace('*', matched)
RECURSIVE ReplaceStar(_, _)
ReplaceStar(s, matched) ==
    IF s = <<>> THEN <<>>
    ELSE (IF Head(s) = "*" THEN matched ELSE <<Head(s)>>) \o ReplaceStar(Tail(s), matched)

\* The loop of resolve_path_alias over one pattern's replacements.
RECURSIVE TryReplacements(_, _, _, _)
TryReplacements(r, fsys, replacements, matched) ==
    IF replacements = <<>> THEN None
    ELSE OrElse(try_resolve_file(fsys,
                    PathJoin(IF IsSome(r.base_url) THEN Unwrap(r.base_url) ELSE r.root,
                             ReplaceStar(Head(replacements), matched))),
                TryReplacements(r, fsys, Tail(replacements), matched))

\* The body of that loop's if-let: matched is what match_path_pattern returned.
AliasHit(r, fsys, replacements, matched) ==
    IF matched = None THEN None ELSE TryReplacements(r, fsys, replacements, matched[1])

\* resolver/node.rs: resolve_path_alias, from the i-th pair on.
RECURSIVE AliasFrom(_, _, _, _)
AliasFrom(r, fsys, specifier, i) ==
    IF i > Len(r.paths) THEN None
    ELSE OrElse(AliasHit(r, fsys, r.paths[i].replacements,
                         match_path_pattern(r.paths[i].pattern, specifier)),
                AliasFrom(r, fsys, specifier, i + 1))

resolve_path_alias(r, fsys, specifier) == AliasFrom(r, fsys, specifier, 1)

\* resolver/node.rs: resolve_relative; base_dir is from.parent().
ResolveBelow(fsys, base_dir, specifier) ==
    IF base_dir = None THEN None
    ELSE try_resolve_file(fsys, PathJoin(base_dir[1], specifier))

resolve_relative(r, fsys, specifier, from) == ResolveBelow(fsys, PathParent(from), specifier)

\* resolver/node.rs: resolve_absolute
resolve_absolute(r, fsys, specifier) == try_resolve_file(fsys, NormPath(specifier))

\* resolver/node.rs: resolve_from_base
resolve_from_base(r, fsys, specifier, base_url) ==
    try_resolve_file(fsys, PathJoin(base_url, specifier))

\* resolver/node.rs: parse_package_specifier; the result is <<package_name, subpath>>.
\* first and second are the indices of the first separator and of the next one
\* after it, 0 when there is none.
SplitPackage(specifier, first, second) ==
    IF StartsWith(specifier, <<"@">>) /\ first # 0
    THEN IF second = 0 THEN <<specifier, None>>
         ELSE <<SubSeq(specifier, 1, first + second - 1),
                Some(Drop(specifier, first + second))>>
    ELSE IF first # 0
    THEN <<SubSeq(specifier, 1, first - 1), Some(Drop(specifier, first))>>
    ELSE <<specifier, None>>

SecondSeparator(specifier, first) ==
    IF first = 0 THEN 0 ELSE FirstIndexOf(Drop(specifier, first), "/")

PackageSplitAt(specifier, first) ==
    SplitPackage(specifier, first, SecondSeparator(specifier, first))

parse_package_specifier(specifier) == PackageSplitAt(specifier, FirstIndexOf(specifier, "/"))

\* The manifest loop of resolve_package_entry over "module", "main", "types".
RECURSIVE TryManifestFields(_, _, _)
TryManifestFields(fsys, package_dir, fields) ==
    IF fields = <<>> THEN None
    ELSE OrElse(IF IsSome(Head(fields))
                THEN try_resolve_file(fsys, PathJoin(package_dir, Unwrap(Head(fields))))
                ELSE None,
                TryManifestFields(fsys, package_dir, Tail(fields)))

\* The manifest branch of resolve_package_entry.
ManifestEntry(fsys, package_dir, pkg_json_path) ==
    IF pkg_json_path \in DOMAIN fsys.manifests
    THEN TryManifestFields(fsys, package_dir,
                           <<fsys.manifests[pkg_json_path].module,
                             fsys.manifests[pkg_json_path].main,
                             fsys.manifests[pkg_json_path].types>>)
    ELSE None

\* resolver/node.rs: resolve_package_entry
resolve_package_entry(r, fsys, package_dir, subpath) ==
    IF IsSome(subpath) THEN try_resolve_file(fsys, PathJoin(package_dir, Unwrap(subpath)))
    ELSE OrElse(ManifestEntry(fsys, package_dir,
                              PathJoin(package_dir, <<"package", ".", "json">>)),
                IndexLookup(fsys.files, package_dir))

\* One round of the loop of resolve_node_modules in directory current.
PackageIn(r, fsys, node_modules, package_dir, subpath) ==
    IF IsDir(fsys.files, node_modules) /\ IsDir(fsys.files, package_dir)
    THEN resolve_package_entry(r, fsys, package_dir, subpath)
    ELSE None

PackageBelow(r, fsys, node_modules, parsed) ==
    PackageIn(r, fsys, node_modules, PathJoin(node_modules, parsed[1]), parsed[2])

\* resolver/node.rs: resolve_node_modules, the loop from directory current upwards.
RECURSIVE NodeModulesFrom(_, _, _, _)
NodeModulesUp(r, fsys, specifier, up) ==
    IF up = None THEN None ELSE NodeModulesFrom(r, fsys, specifier, up[1])

NodeModulesFrom(r, fsys, specifier, current) ==
    OrElse(PackageBelow(r, fsys, PathJoin(current, <<"node_modules">>),
                        parse_package_specifier(specifier)),
           NodeModulesUp(r, fsys, specifier, PathParent(current)))

resolve_node_modules(r, fsys, specifier, from) ==
    NodeModulesUp(r, fsys, specifier, PathParent(from))

\* A resolve in which a relative specifier that is not found goes on to the
\* base URL and to node_modules.
resolve_relative_falls_through(r, fsys, specifier, from) ==
    OrElse(resolve_path_alias(r, fsys, specifier),
           OrElse(IF StartsWith(specifier, <<".", "/">>) \/ StartsWith(specifier, <<".", ".", "/">>)
                  THEN resolve_relative(r, fsys, specifier, from)
                  ELSE IF StartsWith(specifier, <<"/">>) THEN resolve_absolute(r, fsys, specifier)
                  ELSE None,
                  OrElse(IF IsSome(r.base_url)
                         THEN resolve_from_base(r, fsys, specifier, Unwrap(r.base_url))
                         ELSE None,
                         resolve_node_modules(r, fsys, specifier, from))))

\* resolver/node.rs: resolve
resolve(r, fsys, specifier, from) ==
    OrElse(resolve_path_alias(r, fsys, specifier),
           IF StartsWith(specifier, <<".", "/">>) \/ StartsWith(specifier, <<".", ".", "/">>)
           THEN resolve_relative(r, fsys, specifier, from)
           ELSE IF StartsWith(specifier, <<"/">>) THEN resolve_absolute(r, fsys, specifier)
           ELSE OrElse(IF IsSome(r.base_url)
                       THEN resolve_from_base(r, fsys, specifier, Unwrap(r.base_url))
                       ELSE None,
                       resolve_node_modules(r, fsys, specifier, from)))

\* resolver/node.rs: is_external
is_external(r, fsys, specifier) ==
    IF \/ StartsWith(specifier, <<".", "/">>)
       \/ StartsWith(specifier, <<".", ".", "/">>)
       \/ StartsWith(specifier, <<"/">>)
    THEN FALSE
    ELSE IF \E i \in 1..Len(r.paths) : IsSome(match_path_pattern(r.paths[i].pattern, specifier))
    THEN FALSE
    ELSE IF /\ IsSome(r.base_url)
            /\ IsSome(resolve_from_base(r, fsys, specifier, Unwrap(r.base_url)))
    THEN FALSE
    ELSE TRUE

\* resolver/node.rs: get_package_name
get_package_name(specifier) ==
    IF \/ StartsWith(specifier, <<".", "/">>)
       \/ StartsWith(specifier, <<".", ".", "/">>)
       \/ StartsWith(specifier, <<"/">>)
    THEN None
    ELSE Some(parse_package_specifier(specifier)[1])

(***************************************************************************)
(* Ordering.  PathBuf's Ord compares component by component, a component   *)
(* as text; TokenOrder lists the model's alphabet in ascending order.      *)
(***************************************************************************)
TokenOrder ==
    <<"*", "-", ".", "/", ":", "@", "[", "__tests__", "a", "app", "b", "barrel", "core",
      "fs", "index", "inner", "jest", "js", "json", "left", "lib", "lodash", "missing",
      "node", "node_modules", "p", "package", "pad", "spec", "src", "test", "ts", "tslib",
      "types", "u", "uuid">>

TokenRank(t) == CHOOSE i \in 1..Len(TokenOrder) : TokenOrder[i] = t

RECURSIVE TextLess(_, _)
TextLess(a, b) ==
    IF b = <<>> THEN FALSE
    ELSE IF a = <<>> THEN TRUE
    ELSE IF Head(a) = Head(b) THEN TextLess(Tail(a), Tail(b))
    ELSE TokenRank(Head(a)) < TokenRank(Head(b))

RECURSIVE ComponentsLess(_, _)
ComponentsLess(a, b) ==
    IF b = <<>> THEN FALSE
    ELSE IF a = <<>> THEN TRUE
    ELSE IF Head(a) = Head(b) THEN ComponentsLess(Tail(a), Tail(b))
    ELSE TextLess(Head(a), Head(b))

PathLess(a, b) == ComponentsLess(Components(a), Components(b))

\* The paths of a set in ascending order.
RECURSIVE SortedPaths(_)
SortedPaths(S) ==
    IF S = {} THEN <<>>
    ELSE LET m == CHOOSE x \in S : \A y \in S \ {x} : PathLess(x, y)
         IN  <<m>> \o SortedPaths(S \ {m})

\* slice::sort_by on the key (path, line): stable, so equal keys keep their order.
PathLineLess(a, b) ==
    \/ PathLess(a.path, b.path)
    \/ (a.path = b.path /\ a.line < b.line)

RECURSIVE InsertByPathLine(_, _)
InsertByPathLine(sorted, x) ==
    IF sorted = <<>> THEN <<x>>
    ELSE IF PathLineLess(x, Head(sorted)) THEN <<x>> \o sorted
    ELSE <<Head(sorted)>> \o InsertByPathLine(Tail(sorted), x)

RECURSIVE SortByPathLine(_)
SortByPathLine(s) ==
    IF s = <<>> THEN <<>>
    ELSE InsertByPathLine(SortByPathLine(Front(s)), Last(s))

Range(s) == {s[i] : i \in 1..Len(s)}

(***************************************************************************)
(* graph/builder.rs: ModuleGraph.  A graph is [modules, entry_points,      *)
(* external_imports]; modules maps a path to [path, imports, exports,      *)
(* re_exports], an import being [original, resolved_path, package_name].   *)
(***************************************************************************)
\* graph/builder.rs: ModuleGraph::resolve_re_export_source.  The key of a module is
\* its path, so at most one module matches.
RECURSIVE FirstImportOf(_, _)
FirstImportOf(imports, specifier) ==
    IF imports = <<>> THEN None
    ELSE IF Head(imports).original.specifier = specifier THEN Head(imports).resolved_path
    ELSE FirstImportOf(Tail(imports), specifier)

resolve_re_export_source(g, from, specifier) ==
    LET ms == {k \in DOMAIN g.modules : g.modules[k].path = from}
    IN  IF ms = {} THEN None
        ELSE FirstImportOf(g.modules[CHOOSE k \in ms : TRUE].imports, specifier)

\* A worklist loop that stops looking at a module's imports after the first.
ImportPushes_first_only(g, imports, reached) ==
    IF imports = <<>> THEN <<>>
    ELSE IF /\ IsSome(Head(imports).resolved_path)
            /\ Unwrap(Head(imports).resolved_path) \in DOMAIN g.modules
            /\ Unwrap(Head(imports).resolved_path) \notin reached
         THEN <<Unwrap(Head(imports).resolved_path)>>
         ELSE <<>>

\* The pushes of one iteration of the worklist loop: resolved imports that are
\* modules and not yet reachable, then resolved re-export sources not yet reachable.
RECURSIVE ImportPushes(_, _, _)
ImportPushes(g, imports, reached) ==
    IF imports = <<>> THEN <<>>
    ELSE (IF /\ IsSome(Head(imports).resolved_path)
             /\ Unwrap(Head(imports).resolved_path) \in DOMAIN g.modules
             /\ Unwrap(Head(imports).resolved_path) \notin reached
          THEN <<Unwrap(Head(imports).resolved_path)>>
          ELSE <<>>)
         \o ImportPushes(g, Tail(imports), reached)

RECURSIVE ReExportPushes(_, _, _, _)
ReExportPushes(g, path, re_exports, reached) ==
    IF re_exports = <<>> THEN <<>>
    ELSE LET resolved == resolve_re_export_source(g, path, Head(re_exports).specifier)
         IN  (IF IsSome(resolved) /\ Unwrap(resolved) \notin reached
              THEN <<Unwrap(resolved)>>
              ELSE <<>>)
             \o ReExportPushes(g, path, Tail(re_exports), reached)

\* An iteration that expands the popped path without recording it as reachable.
ReachStep_forgets_visited(g, st) ==
    LET path == Last(st.queue)
        rest == Front(st.queue)
    IN  IF path \in st.reachable THEN [reachable |-> st.reachable, queue |-> rest]
        ELSE IF path \in DOMAIN g.modules
        THEN [reachable |-> st.reachable,
              queue |-> rest
                        \o ImportPushes(g, g.modules[path].imports, st.reachable)
                        \o ReExportPushes(g, path, g.modules[path].re_exports, st.reachable)]
        ELSE [reachable |-> st.reachable, queue |-> rest]

\* One iteration of the while loop of get_reachable_files on the state
\* [reachable, queue]; the queue is a Vec popped at its end.
ReachStep(g, st) ==
    LET path == Last(st.queue)
        rest == Front(st.queue)
        reached == st.reachable \cup {path}
    IN  IF path \in st.reachable THEN [reachable |-> st.reachable, queue |-> rest]
        ELSE IF path \in DOMAIN g.modules
        THEN [reachable |-> reached,
              queue |-> rest
                        \o ImportPushes(g, g.modules[path].imports, reached)
                        \o ReExportPushes(g, path, g.modules[path].re_exports, reached)]
        ELSE [reachable |-> reached, queue |-> rest]

RECURSIVE ReachLoop(_, _)
ReachLoop(g, st) ==
    IF st.queue = <<>> THEN st.reachable ELSE ReachLoop(g, ReachStep(g, st))

\* graph/builder.rs: ModuleGraph::get_reachable_files
get_reachable_files(g) == ReachLoop(g, [reachable |-> {}, queue |-> g.entry_points])

\* The names one import records against its target.
ImportUses(import) ==
    {import.original.imported_names[i].name : i \in 1..Len(import.original.imported_names)}
        \cup (IF import.original.is_side_effect THEN {"*"} ELSE {})

\* A get_used_exports that visits the reachable modules only.
get_used_exports_reachable_only(g) ==
    LET resolvedImports ==
            UNION {{<<k, i>> : i \in {j \in 1..Len(g.modules[k].imports) :
                                         IsSome(g.modules[k].imports[j].resolved_path)}} :
                   k \in DOMAIN g.modules \cap get_reachable_files(g)}
        targets == {Unwrap(g.modules[ki[1]].imports[ki[2]].resolved_path) : ki \in resolvedImports}
    IN  [t \in targets |->
            UNION {ImportUses(g.modules[ki[1]].imports[ki[2]]) :
                     ki \in {x \in resolvedImports :
                               Unwrap(g.modules[x[1]].imports[x[2]].resolved_path) = t}}]

\* graph/builder.rs: ModuleGraph::get_used_exports
get_used_exports(g) ==
    LET resolvedImports ==
            UNION {{<<k, i>> : i \in {j \in 1..Len(g.modules[k].imports) :
                                         IsSome(g.modules[k].imports[j].resolved_path)}} :
                   k \in DOMAIN g.modules}
        targets == {Unwrap(g.modules[ki[1]].imports[ki[2]].resolved_path) : ki \in resolvedImports}
    IN  [t \in targets |->
            UNION {ImportUses(g.modules[ki[1]].imports[ki[2]]) :
                     ki \in {x \in resolvedImports :
                               Unwrap(g.modules[x[1]].imports[x[2]].resolved_path) = t}}]

\* graph/builder.rs: ModuleGraph::get_used_packages
get_used_packages(g) == DOMAIN g.external_imports

(***************************************************************************)
(* analyzer/mod.rs.  A resolved configuration is [root, config, tsconfig,  *)
(* package_json]; config.ignore_exports is the set of the map's            *)
(* [pattern, names] pairs.                                                 *)
(***************************************************************************)
\* globset::Glob::new fails on a pattern with an unclosed character class.
GlobValid(pattern) == ~HasToken(pattern, "[")

\* analyzer/mod.rs: is_test_file
is_test_file(path) ==
    \/ StrContains(path, <<".", "test", ".">>)
    \/ StrContains(path, <<".", "spec", ".">>)
    \/ StrContains(path, <<"__tests__">>)
    \/ StrContains(path, <<"__mocks__">>)
    \/ EndsWith(path, <<".", "test", ".", "ts">>)
    \/ EndsWith(path, <<".", "test", ".", "tsx">>)
    \/ EndsWith(path, <<".", "test", ".", "js">>)
    \/ EndsWith(path, <<".", "test", ".", "jsx">>)
    \/ EndsWith(path, <<".", "spec", ".", "ts">>)
    \/ EndsWith(path, <<".", "spec", ".", "tsx">>)
    \/ EndsWith(path, <<".", "spec", ".", "js">>)
    \/ EndsWith(path, <<".", "spec", ".", "jsx">>)

\* The closure should_ignore of find_unused_files, for one pattern.
IgnorePatternMatches(pattern, relative) ==
    IF HasToken(pattern, "*") /\ GlobValid(pattern)
    THEN GlobIsMatch(pattern, relative)
    ELSE StrContains(relative, pattern)

\* find_unused_files without the test-file exclusion.
find_unused_files_keeps_tests(g, cfg) ==
    LET reachable == get_reachable_files(g)
        unused == {path \in DOMAIN g.modules :
                     /\ path \notin reachable
                     /\ ~\E i \in 1..Len(cfg.config.ignore) :
                            IgnorePatternMatches(cfg.config.ignore[i], RelativeTo(cfg.root, path))}
    IN  SortedPaths(unused)

\* analyzer/mod.rs: find_unused_files; an UnusedFile is its path.
find_unused_files(g, cfg) ==
    LET reachable == get_reachable_files(g)
        unused == {path \in DOMAIN g.modules :
                     /\ path \notin reachable
                     /\ ~\E i \in 1..Len(cfg.config.ignore) :
                            IgnorePatternMatches(cfg.config.ignore[i], RelativeTo(cfg.root, path))
                     /\ ~is_test_file(RelativeTo(cfg.root, path))}
    IN  SortedPaths(unused)

\* lib.rs: the result's ExportKind and TypeKind.
RK_Function == "RK_Function"
RK_Class == "RK_Class"
RK_Variable == "RK_Variable"
RK_Const == "RK_Const"
RK_Let == "RK_Let"
RK_Enum == "RK_Enum"
RK_Namespace == "RK_Namespace"
RK_Default == "RK_Default"
TK_Type == "TK_Type"
TK_Interface == "TK_Interface"
TK_Enum == "TK_Enum"

\* analyzer/mod.rs: convert_export_kind
convert_export_kind(kind) ==
    CASE kind = EK_Function -> RK_Function
      [] kind = EK_Class -> RK_Class
      [] kind = EK_Variable -> RK_Variable
      [] kind = EK_Const -> RK_Const
      [] kind = EK_Let -> RK_Let
      [] kind = EK_Type -> RK_Const
      [] kind = EK_Interface -> RK_Const
      [] kind = EK_Enum -> RK_Enum
      [] kind = EK_Namespace -> RK_Namespace
      [] kind = EK_Default -> RK_Default

\* The match on export.kind when an UnusedType is built.
TypeKindOf(kind) ==
    IF kind = EK_Type THEN TK_Type
    ELSE IF kind = EK_Interface THEN TK_Interface
    ELSE IF kind = EK_Enum THEN TK_Enum
    ELSE TK_Type

\* ignore_exports.get("**/*") holds "*"
should_ignore_all(cfg) ==
    \E e \in cfg.config.ignore_exports :
        /\ e.pattern = <<"*", "*", "/", "*">>
        /\ "*" \in Range(e.names)

\* The name patterns of every ignore_exports key that matches the file.
file_ignore_patterns(cfg, relative) ==
    UNION {Range(e.names) :
             e \in {x \in cfg.config.ignore_exports :
                      GlobValid(x.pattern) /\ GlobIsMatch(x.pattern, relative)}}

\* is_used without the sentinel test.
ExportIsUsed_no_sentinel(used_exports, path, export) ==
    /\ path \in DOMAIN used_exports
    /\ \/ export.name \in used_exports[path]
       \/ (export.is_default /\ "default" \in used_exports[path])

\* The test is_used of find_unused_exports.
ExportIsUsed(used_exports, path, export) ==
    /\ path \in DOMAIN used_exports
    /\ \/ export.name \in used_exports[path]
       \/ "*" \in used_exports[path]
       \/ (export.is_default /\ "default" \in used_exports[path])

\* Whether the loop body of find_unused_exports emits a diagnostic for the export.
ExportIsReported(g, cfg, used_exports, path, export) ==
    /\ ~(export.is_default /\ path \in Range(g.entry_points) /\ ~cfg.config.include_entry_exports)
    /\ export.name \notin file_ignore_patterns(cfg, RelativeTo(cfg.root, path))
    /\ "*" \notin file_ignore_patterns(cfg, RelativeTo(cfg.root, path))
    /\ ~ExportIsUsed(used_exports, path, export)
    /\ ~cfg.config.ignore_exports_used_in_file

\* Whether find_unused_exports puts a reported export on the types list.
OnTypesList(export) == export.is_type

\* The diagnostics of one module, in the order of its exports.
RECURSIVE ModuleUnusedExports(_, _, _, _, _, _)
ModuleUnusedExports(g, cfg, used_exports, path, exports, types) ==
    IF exports = <<>> THEN <<>>
    ELSE LET e == Head(exports)
         IN  (IF ExportIsReported(g, cfg, used_exports, path, e) /\ OnTypesList(e) = types
              THEN IF types
                   THEN <<[path |-> path, name |-> e.name, line |-> e.line, col |-> e.col,
                           kind |-> TypeKindOf(e.kind)]>>
                   ELSE <<[path |-> path, name |-> e.name, line |-> e.line, col |-> e.col,
                           kind |-> convert_export_kind(e.kind), is_type |-> e.is_type]>>
              ELSE <<>>)
             \o ModuleUnusedExports(g, cfg, used_exports, path, Tail(exports), types)

RECURSIVE AllUnusedExports(_, _, _, _, _)
AllUnusedExports(g, cfg, used_exports, paths, types) ==
    IF paths = <<>> THEN <<>>
    ELSE ModuleUnusedExports(g, cfg, used_exports, Head(paths),
                             g.modules[Head(paths)].exports, types)
         \o AllUnusedExports(g, cfg, used_exports, Tail(paths), types)

\* analyzer/mod.rs: find_unused_exports, one of its two lists (types: the types
\* list).  The modules are visited in the map's iteration order; the final sort
\* is stable on (path, line), which leaves the same list for every such order.
UnusedExportList(g, cfg, types) ==
    LET reachable == get_reachable_files(g)
        visited == IF should_ignore_all(cfg) THEN {}
                   ELSE {path \in DOMAIN g.modules : path \in reachable}
    IN  SortByPathLine(AllUnusedExports(g, cfg, get_used_exports(g), SortedPaths(visited), types))

find_unused_exports(g, cfg) ==
    [exports |-> UnusedExportList(g, cfg, FALSE), types |-> UnusedExportList(g, cfg, TRUE)]

\* String's Ord on the names of a set: the names in ascending order.
RECURSIVE SortedNames(_)
SortedNames(S) ==
    IF S = {} THEN <<>>
    ELSE LET m == CHOOSE x \in S : \A y \in S \ {x} : TextLess(x, y)
         IN  <<m>> \o SortedNames(S \ {m})

\* analyzer/mod.rs: is_implicit_dependency
is_implicit_dependency(name) ==
    name \in {<<"typescript">>, <<"@", "types", "/", "node">>, <<"tslib">>,
              <<"core", "-", "js">>, <<"regenerator", "-", "runtime">>}

\* analyzer/mod.rs: is_dev_tool_dependency
is_dev_tool_dependency(name) ==
    \/ StartsWith(name, <<"@", "types", "/">>)
    \/ StartsWith(name, <<"eslint">>)
    \/ StartsWith(name, <<"prettier">>)
    \/ name \in {<<"typescript">>, <<"jest">>, <<"vitest">>, <<"mocha">>, <<"chai">>,
                 <<"ts", "-", "node">>, <<"ts", "-", "jest">>, <<"webpack">>, <<"vite">>,
                 <<"rollup">>, <<"esbuild">>, <<"parcel">>, <<"babel">>, <<"swc">>,
                 <<"husky">>, <<"lint", "-", "staged">>, <<"commitlint">>}

\* analyzer/mod.rs: is_builtin_module
is_builtin_module(name) ==
    \/ name \in {<<"assert">>, <<"buffer">>, <<"child_process">>, <<"cluster">>,
                 <<"console">>, <<"constants">>, <<"crypto">>, <<"dgram">>, <<"dns">>,
                 <<"domain">>, <<"events">>, <<"fs">>, <<"http">>, <<"http2">>,
                 <<"https">>, <<"inspector">>, <<"module">>, <<"net">>, <<"os">>,
                 <<"path">>, <<"perf_hooks">>, <<"process">>, <<"punycode">>,
                 <<"querystring">>, <<"readline">>, <<"repl">>, <<"stream">>,
                 <<"string_decoder">>, <<"sys">>, <<"timers">>, <<"tls">>,
                 <<"trace_events">>, <<"tty">>, <<"url">>, <<"util">>, <<"v8">>,
                 <<"vm">>, <<"wasi">>, <<"worker_threads">>, <<"zlib">>}
    \/ StartsWith(name, <<"node", ":">>)

\* The UnusedDependency records of the names, in the names' order.
UnusedDependencies(names, package_json_path, is_dev) ==
    [i \in 1..Len(names) |->
        [name |-> names[i], package_json |-> package_json_path, workspace |-> None,
         is_dev |-> is_dev]]

\* The loop of find_unused_dependencies over the runtime dependencies without
\* the test is_implicit_dependency.
UnusedRuntimeNames_keeps_implicit(pkg, used_packages, ignore_deps) ==
    {dep_name \in pkg.dependencies :
        /\ dep_name \notin ignore_deps
        /\ dep_name \notin used_packages}

\* The loop of find_unused_dependencies over the runtime dependencies.
UnusedRuntimeNames(pkg, used_packages, ignore_deps) ==
    {dep_name \in pkg.dependencies :
        /\ dep_name \notin ignore_deps
        /\ dep_name \notin used_packages
        /\ ~is_implicit_dependency(dep_name)}

\* The loop of find_unused_dependencies over the dev dependencies.
UnusedDevNames(pkg, used_packages, ignore_deps, options) ==
    IF options.production THEN {}
    ELSE {dep_name \in pkg.dev_dependencies :
            /\ dep_name \notin ignore_deps
            /\ dep_name \notin used_packages
            /\ ~is_dev_tool_dependency(dep_name)}

\* analyzer/mod.rs: find_unused_dependencies; the pair as [deps, dev].
find_unused_dependencies(g, cfg, options) ==
    IF cfg.package_json = None
    THEN [deps |-> <<>>, dev |-> <<>>]
    ELSE [deps |-> UnusedDependencies(
                      SortedNames(UnusedRuntimeNames(cfg.package_json[1], get_used_packages(g),
                                                     Range(cfg.config.ignore_dependencies))),
                      PathJoin(cfg.root, <<"package", ".", "json">>), FALSE),
          dev |-> UnusedDependencies(
                      SortedNames(UnusedDevNames(cfg.package_json[1], get_used_packages(g),
                                                 Range(cfg.config.ignore_dependencies), options)),
                      PathJoin(cfg.root, <<"package", ".", "json">>), TRUE)]

\* The names of every section of the manifest.
DeclaredAnywhere(pkg) ==
    pkg.dependencies \cup pkg.dev_dependencies \cup pkg.peer_dependencies
        \cup pkg.optional_dependencies

\* The set all_deps of find_unlisted_dependencies without the strict branch.
DeclaredFor_ignores_strict(pkg, options) == DeclaredAnywhere(pkg)

\* The set all_deps of find_unlisted_dependencies.
DeclaredFor(pkg, options) ==
    IF options.strict THEN pkg.dependencies ELSE DeclaredAnywhere(pkg)

\* The loop of find_unlisted_dependencies over external_imports.
UnlistedNames(g, all_deps) ==
    {package_name \in DOMAIN g.external_imports :
        /\ package_name \notin all_deps
        /\ ~is_builtin_module(package_name)
        /\ ~StartsWith(package_name, <<"@", "types", "/">>)}

\* The UnlistedDependency records of the names, in the names' order.
UnlistedDependencies(g, names) ==
    [i \in 1..Len(names) |-> [name |-> names[i], used_in |-> g.external_imports[names[i]]]]

\* analyzer/mod.rs: find_unlisted_dependencies
find_unlisted_dependencies(g, cfg, options) ==
    IF cfg.package_json = None THEN <<>>
    ELSE UnlistedDependencies(g, SortedNames(UnlistedNames(g, DeclaredFor(cfg.package_json[1],
                                                                         options))))

\* Whether the loop body of find_unresolved_imports emits a diagnostic for the import.
ImportIsUnresolved(import, all_deps) ==
    IF \/ StartsWith(import.original.specifier, <<".", "/">>)
       \/ StartsWith(import.original.specifier, <<".", ".", "/">>)
    THEN import.resolved_path = None
    ELSE IF import.package_name # None
    THEN /\ ~(import.package_name[1] \notin all_deps /\ ~is_builtin_module(import.package_name[1]))
         /\ import.resolved_path = None
         /\ ~is_builtin_module(import.package_name[1])
    ELSE FALSE

\* The diagnostics of one module, in the order of its imports.
RECURSIVE ModuleUnresolved(_, _, _)
ModuleUnresolved(path, imports, all_deps) ==
    IF imports = <<>> THEN <<>>
    ELSE (IF ImportIsUnresolved(Head(imports), all_deps)
          THEN <<[path |-> path, specifier |-> Head(imports).original.specifier,
                  line |-> Head(imports).original.line, col |-> Head(imports).original.col]>>
          ELSE <<>>)
         \o ModuleUnresolved(path, Tail(imports), all_deps)

RECURSIVE AllUnresolved(_, _, _)
AllUnresolved(g, paths, all_deps) ==
    IF paths = <<>> THEN <<>>
    ELSE ModuleUnresolved(Head(paths), g.modules[Head(paths)].imports, all_deps)
         \o AllUnresolved(g, Tail(paths), all_deps)

\* analyzer/mod.rs: find_unresolved_imports.  The modules are visited in the
\* map's iteration order; the final sort is stable on (path, line), which
\* leaves the same list for every such order.
find_unresolved_imports(g, cfg) ==
    IF cfg.package_json = None THEN <<>>
    ELSE SortByPathLine(AllUnresolved(g, SortedPaths(DOMAIN g.modules),
                                      DeclaredAnywhere(cfg.package_json[1])))

(***************************************************************************)
(* cache/store.rs.  A Cache is [config, data, dirty] with data = [version,  *)
(* entries], entries a function from the path keys to CacheEntry values.   *)
(* The cache file is None (no file) or Some(data).                         *)
(***************************************************************************)
CACHE_VERSION == 1

DefaultMaxEntries == 10000

\* CacheConfig::default
DefaultCacheConfig == [max_age |-> 7 * 24 * 60 * 60, max_entries |-> DefaultMaxEntries]

\* CacheData::default
DefaultCacheData == [version |-> CACHE_VERSION, entries |-> <<>>]

\* The number of values of the 64-bit content hash, scaled down.
HashSpace == 4

\* The hash of a text: the hasher is a function of the bytes alone and sends
\* many texts to one value.
TextHash(text) == text % HashSpace

\* compute_content_hash
compute_content_hash(content) == TextHash(content.text)

\* get_modified_time: the file's modification time in seconds, 0 without metadata.
get_modified_time(mtimes, path) == IF path \in DOMAIN mtimes THEN mtimes[path] ELSE 0

\* format!("{:?}", export.kind)
DebugKind(kind) ==
    CASE kind = EK_Function -> "Function"
      [] kind = EK_Class -> "Class"
      [] kind = EK_Variable -> "Variable"
      [] kind = EK_Const -> "Const"
      [] kind = EK_Let -> "Let"
      [] kind = EK_Type -> "Type"
      [] kind = EK_Interface -> "Interface"
      [] kind = EK_Enum -> "Enum"
      [] kind = EK_Namespace -> "Namespace"
      [] kind = EK_Default -> "Default"

\* impl From<&Import> for CachedImport
CachedImportOf(import) ==
    [specifier |-> import.specifier,
     imported_names |->
        [i \in 1..Len(import.imported_names) |->
            [name |-> import.imported_names[i].name,
             alias |-> import.imported_names[i].alias,
             is_type |-> import.imported_names[i].is_type]],
     is_type_only |-> import.is_type_only,
     is_side_effect |-> import.is_side_effect,
     line |-> import.line,
     col |-> import.col]

\* impl From<&CachedImport> for Import
ImportOfCached(cached) ==
    [specifier |-> cached.specifier,
     imported_names |->
        [i \in 1..Len(cached.imported_names) |->
            [name |-> cached.imported_names[i].name,
             alias |-> cached.imported_names[i].alias,
             is_type |-> cached.imported_names[i].is_type]],
     is_type_only |-> cached.is_type_only,
     is_side_effect |-> cached.is_side_effect,
     line |-> cached.line,
     col |-> cached.col]

\* impl From<&Export> for CachedExport
CachedExportOf(export) ==
    [name |-> export.name,
     kind |-> DebugKind(export.kind),
     is_type |-> export.is_type,
     is_default |-> export.is_default,
     line |-> export.line,
     col |-> export.col]

\* The match of From<&CachedExport> with the arms of the type-level kinds
\* missing, so that they fall to the default arm.
KindOfCached_no_type_arms(kind) ==
    CASE kind = "Function" -> EK_Function
      [] kind = "Class" -> EK_Class
      [] kind = "Variable" -> EK_Variable
      [] kind = "Const" -> EK_Const
      [] kind = "Let" -> EK_Let
      [] kind = "Namespace" -> EK_Namespace
      [] kind = "Default" -> EK_Default
      [] OTHER -> EK_Variable

\* The match on cached.kind of From<&CachedExport> for Export.
KindOfCached(kind) ==
    CASE kind = "Function" -> EK_Function
      [] kind = "Class" -> EK_Class
      [] kind = "Variable" -> EK_Variable
      [] kind = "Const" -> EK_Const
      [] kind = "Let" -> EK_Let
      [] kind = "Type" -> EK_Type
      [] kind = "Interface" -> EK_Interface
      [] kind = "Enum" -> EK_Enum
      [] kind = "Namespace" -> EK_Namespace
      [] kind = "Default" -> EK_Default
      [] OTHER -> EK_Variable

\* impl From<&CachedExport> for Export
ExportOfCached(cached) ==
    [name |-> cached.name,
     kind |-> KindOfCached(cached.kind),
     is_type |-> cached.is_type,
     is_default |-> cached.is_default,
     line |-> cached.line,
     col |-> cached.col]

\* impl From<&ReExport> for CachedReExport
CachedReExportOf(re_export) ==
    [specifier |-> re_export.specifier,
     exported_names |->
        [i \in 1..Len(re_export.exported_names) |->
            [name |-> re_export.exported_names[i].name,
             alias |-> re_export.exported_names[i].alias,
             is_type |-> re_export.exported_names[i].is_type]],
     is_type_only |-> re_export.is_type_only,
     line |-> re_export.line,
     col |-> re_export.col]

\* impl From<&CachedReExport> for ReExport
ReExportOfCached(cached) ==
    [specifier |-> cached.specifier,
     exported_names |->
        [i \in 1..Len(cached.exported_names) |->
            [name |-> cached.exported_names[i].name,
             alias |-> cached.exported_names[i].alias,
             is_type |-> cached.exported_names[i].is_type]],
     is_type_only |-> cached.is_type_only,
     line |-> cached.line,
     col |-> cached.col]

\* CacheEntry::from_parsed
from_parsed(content_hash, modified_time, imports, exports, re_exports) ==
    [content_hash |-> content_hash,
     modified_time |-> modified_time,
     imports |-> [i \in 1..Len(imports) |-> CachedImportOf(imports[i])],
     exports |-> [i \in 1..Len(exports) |-> CachedExportOf(exports[i])],
     re_exports |-> [i \in 1..Len(re_exports) |-> CachedReExportOf(re_exports[i])]]

\* CacheEntry::to_imports, to_exports, to_re_exports
to_imports(entry) == [i \in 1..Len(entry.imports) |-> ImportOfCached(entry.imports[i])]

to_exports(entry) == [i \in 1..Len(entry.exports) |-> ExportOfCached(entry.exports[i])]

to_re_exports(entry) ==
    [i \in 1..Len(entry.re_exports) |-> ReExportOfCached(entry.re_exports[i])]

\* Cache::new without the comparison of the version.
CacheNew_any_version(file, config) ==
    [config |-> config,
     data |-> IF IsSome(file) THEN Unwrap(file) ELSE DefaultCacheData,
     dirty |-> FALSE]

\* A Cache::new that never reads the file.
CacheNew_starts_empty(file, config) ==
    [config |-> config, data |-> DefaultCacheData, dirty |-> FALSE]

\* Cache::new: the file's data when it decodes with the current version.
CacheNew(file, config) ==
    [config |-> config,
     data |-> IF IsSome(file) /\ Unwrap(file).version = CACHE_VERSION
              THEN Unwrap(file)
              ELSE DefaultCacheData,
     dirty |-> FALSE]

\* Cache::get
CacheGet(cache, path) ==
    IF path \in DOMAIN cache.data.entries THEN Some(cache.data.entries[path]) ELSE None

\* A validity test that asks only whether the path has an entry.
is_valid_any_entry(cache, path, content_hash) == IsSome(CacheGet(cache, path))

\* Cache::is_valid
is_valid(cache, path, content_hash) ==
    IF IsSome(CacheGet(cache, path))
    THEN Unwrap(CacheGet(cache, path)).content_hash = content_hash
    ELSE FALSE

\* The function f with the keys of K removed.
Without(f, K) == [k \in DOMAIN f \ K |-> f[k]]

\* An insertion that keeps the value of a key the map holds.
With_keeps_existing(f, k, v) ==
    [x \in DOMAIN f \cup {k} |-> IF x \in DOMAIN f THEN f[x] ELSE v]

\* The function f with key k set to v.
With(f, k, v) == [x \in DOMAIN f \cup {k} |-> IF x = k THEN v ELSE f[x]]

\* An eviction that removes from the other end of the sorted entries.
evict_newest(cache) ==
    LET entries == cache.data.entries
        n == Cardinality(DOMAIN entries)
        to_remove == IF n > cache.config.max_entries THEN n - cache.config.max_entries ELSE 0
        removable == {R \in SUBSET DOMAIN entries :
                        /\ Cardinality(R) = to_remove
                        /\ \A r \in R : \A k \in DOMAIN entries \ R :
                              entries[r].modified_time >= entries[k].modified_time}
    IN  {[cache EXCEPT !.data.entries = Without(entries, R)] : R \in removable}

\* Cache::evict_oldest: the entries are sorted by modified_time, from the map's
\* iteration order and stably, and the first len - max_entries are removed;
\* the result is the set of caches some iteration order leaves.
evict_oldest(cache) ==
    LET entries == cache.data.entries
        n == Cardinality(DOMAIN entries)
        to_remove == IF n > cache.config.max_entries THEN n - cache.config.max_entries ELSE 0
        removable == {R \in SUBSET DOMAIN entries :
                        /\ Cardinality(R) = to_remove
                        /\ \A r \in R : \A k \in DOMAIN entries \ R :
                              entries[r].modified_time <= entries[k].modified_time}
    IN  {[cache EXCEPT !.data.entries = Without(entries, R)] : R \in removable}

\* Cache::insert: the set of caches it may leave.
CacheInsert(cache, path, entry) ==
    LET inserted == [cache EXCEPT !.data.entries = With(cache.data.entries, path, entry),
                                  !.dirty = TRUE]
    IN  IF Cardinality(DOMAIN inserted.data.entries) > cache.config.max_entries
        THEN evict_oldest(inserted)
        ELSE {inserted}

\* Cache::save: the cache file it leaves.
CacheSave(cache, file) == IF ~cache.dirty THEN file ELSE Some(cache.data)

(***************************************************************************)
(* graph/builder.rs: building the graph of a project.  fs maps the path    *)
(* of every regular file to its source text.                               *)
(***************************************************************************)
\* The alias map create_resolver merges: the configuration's entries, then the
\* tsconfig's entries under patterns the configuration does not define.
MergedPaths(cfg) ==
    cfg.config.paths
        \cup (IF IsSome(cfg.tsconfig)
              THEN {e \in Unwrap(cfg.tsconfig).compiler_options.paths :
                      ~\E c \in cfg.config.paths : c.pattern = e.pattern}
              ELSE {})

\* The orders in which a map's iteration may visit the entries S.
IterationOrders(S) ==
    {q \in [1..Cardinality(S) -> S] :
        \A i, j \in 1..Cardinality(S) : q[i] = q[j] => i = j}

\* graph/builder.rs: create_resolver, under one iteration order of the alias map.
create_resolver(cfg, paths) ==
    [root |-> cfg.root,
     base_url |->
        IF IsSome(cfg.tsconfig) /\ IsSome(Unwrap(cfg.tsconfig).compiler_options.base_url)
        THEN Some(PathJoin(cfg.root, Unwrap(Unwrap(cfg.tsconfig).compiler_options.base_url)))
        ELSE None,
     paths |-> paths]

DefaultProjectPatterns ==
    <<(<<"*", "*", "/", "*", ".", "ts">>), (<<"*", "*", "/", "*", ".", "tsx">>),
      (<<"*", "*", "/", "*", ".", "js">>), (<<"*", "*", "/", "*", ".", "jsx">>),
      (<<"*", "*", "/", "*", ".", "mjs">>), (<<"*", "*", "/", "*", ".", "cjs">>)>>

BuiltinExcludes ==
    <<(<<"*", "*", "/", "node_modules", "/", "*", "*">>),
      (<<"*", "*", "/", "dist", "/", "*", "*">>),
      (<<"*", "*", "/", "build", "/", "*", "*">>),
      (<<"*", "*", "/", ".", "git", "/", "*", "*">>)>>

ProductionExcludes ==
    <<(<<"*", "*", "/", "*", ".", "test", ".", "ts">>),
      (<<"*", "*", "/", "*", ".", "test", ".", "tsx">>),
      (<<"*", "*", "/", "*", ".", "test", ".", "js">>),
      (<<"*", "*", "/", "*", ".", "test", ".", "jsx">>),
      (<<"*", "*", "/", "*", ".", "spec", ".", "ts">>),
      (<<"*", "*", "/", "*", ".", "spec", ".", "tsx">>),
      (<<"*", "*", "/", "*", ".", "spec", ".", "js">>),
      (<<"*", "*", "/", "*", ".", "spec", ".", "jsx">>),
      (<<"*", "*", "/", "__tests__", "/", "*", "*">>),
      (<<"*", "*", "/", "__mocks__", "/", "*", "*">>),
      (<<"*", "*", "/", "test", "/", "*", "*">>),
      (<<"*", "*", "/", "tests", "/", "*", "*">>),
      (<<"*", "*", "/", "*", ".", "stories", ".", "ts">>),
      (<<"*", "*", "/", "*", ".", "stories", ".", "tsx">>),
      (<<"*", "*", "/", "*", ".", "stories", ".", "js">>),
      (<<"*", "*", "/", "*", ".", "stories", ".", "jsx">>)>>

\* GlobSet::is_match over the patterns that compile.
GlobSetIsMatch(patterns, relative) ==
    \E i \in 1..Len(patterns) :
        GlobValid(patterns[i]) /\ GlobIsMatch(patterns[i], relative)

\* The files collect_project_files keeps, among the regular files F below the root.
ProjectFileSet(F, cfg, production) ==
    LET include == IF cfg.config.project = <<>> THEN DefaultProjectPatterns
                   ELSE cfg.config.project
        exclude == cfg.config.ignore_files \o BuiltinExcludes
                    \o (IF production THEN ProductionExcludes ELSE <<>>)
    IN  {path \in F :
            /\ StartsWith(path, cfg.root \o <<"/">>)
            /\ ~GlobSetIsMatch(exclude, RelativeTo(cfg.root, path))
            /\ GlobSetIsMatch(include, RelativeTo(cfg.root, path))}

Reverse(s) == [i \in 1..Len(s) |-> s[Len(s) + 1 - i]]

\* graph/builder.rs: collect_project_files.  The walk lists a directory in the
\* order the file system gives; the lists of the ascending and of the descending
\* order are the ones taken here.
WalkOrders(sorted) == {sorted, Reverse(sorted)}

collect_project_files(F, cfg, production) ==
    WalkOrders(SortedPaths(ProjectFileSet(F, cfg, production)))

\* The project files one entry glob selects, in the files' order.
RECURSIVE EntryGlobMatches(_, _, _)
EntryGlobMatches(cfg, pattern, files) ==
    IF files = <<>> THEN <<>>
    ELSE (IF GlobIsMatch(pattern, RelativeTo(cfg.root, Head(files)))
          THEN <<Head(files)>>
          ELSE <<>>)
         \o EntryGlobMatches(cfg, pattern, Tail(files))

\* The loop of find_entry_points over the configured entry patterns.
RECURSIVE ConfiguredEntries(_, _, _)
ConfiguredEntries(cfg, patterns, project_files) ==
    IF patterns = <<>> THEN <<>>
    ELSE (IF GlobValid(Head(patterns))
          THEN EntryGlobMatches(cfg, Head(patterns), project_files)
          ELSE IF PathJoin(cfg.root, Head(patterns)) \in Range(project_files)
          THEN <<PathJoin(cfg.root, Head(patterns))>>
          ELSE <<>>)
         \o ConfiguredEntries(cfg, Tail(patterns), project_files)

DEFAULT_ENTRIES ==
    <<(<<"src", "/", "index", ".", "ts">>), (<<"src", "/", "index", ".", "tsx">>),
      (<<"src", "/", "main", ".", "ts">>), (<<"src", "/", "main", ".", "tsx">>),
      (<<"index", ".", "ts">>), (<<"index", ".", "tsx">>), (<<"index", ".", "js">>),
      (<<"main", ".", "ts">>), (<<"main", ".", "tsx">>), (<<"main", ".", "js">>)>>

\* The first default entry that is a project file, as a list of at most one.
RECURSIVE FirstDefaultEntry(_, _, _)
FirstDefaultEntry(cfg, defaults, project_files) ==
    IF defaults = <<>> THEN <<>>
    ELSE IF PathJoin(cfg.root, Head(defaults)) \in Range(project_files)
    THEN <<PathJoin(cfg.root, Head(defaults))>>
    ELSE FirstDefaultEntry(cfg, Tail(defaults), project_files)

\* graph/builder.rs: find_entry_points
WithMain(entries, main, project_files) ==
    IF /\ main # None
       /\ main[1] \in Range(project_files)
       /\ main[1] \notin Range(entries)
    THEN Append(entries, main[1])
    ELSE entries

OrDefaults(cfg, configured, project_files) ==
    IF configured = <<>> THEN FirstDefaultEntry(cfg, DEFAULT_ENTRIES, project_files)
    ELSE configured

find_entry_points(cfg, project_files) ==
    WithMain(OrDefaults(cfg, ConfiguredEntries(cfg, cfg.config.entry, project_files),
                        project_files),
             IF IsSome(cfg.package_json) /\ IsSome(Unwrap(cfg.package_json).main)
             THEN Some(PathJoin(cfg.root, Unwrap(Unwrap(cfg.package_json).main)))
             ELSE None,
             project_files)

\* std::fs::read_to_string: the text, None when the file is missing or is not
\* valid UTF-8.
read_to_string(fs, path) ==
    IF path \in DOMAIN fs /\ fs[path].utf8 THEN Some(fs[path]) ELSE None

\* parser/typescript.rs: parse_file; an unreadable file is an error like a
\* syntax error.
ParseRead(content, path) ==
    IF content = None THEN None ELSE parse_source(content[1], path)

parse_file(fs, path) == ParseRead(read_to_string(fs, path), path)

\* The package_name the resolution loop gives an import.
PackageNameOf(r, fsys, specifier) ==
    IF is_external(r, fsys, specifier) THEN get_package_name(specifier) ELSE None

\* The ResolvedImport build_graph_with_options makes of one import.
ResolveImport(r, fsys, path, import) ==
    [original |-> import,
     resolved_path |-> resolve(r, fsys, import.specifier, path),
     package_name |-> PackageNameOf(r, fsys, import.specifier)]

\* The Module build_graph_with_options makes of one parsed module.
BuildModule(r, fsys, path, parsed) ==
    [path |-> path,
     imports |-> [i \in 1..Len(parsed.imports) |-> ResolveImport(r, fsys, path, parsed.imports[i])],
     exports |-> parsed.exports,
     re_exports |-> parsed.re_exports]

\* The importing paths the resolution loop records for the packages, one per
\* import, in the order of parsed_modules and of each module's imports.
ExternalUse(path, package_name) ==
    IF package_name = None THEN <<>>
    ELSE <<[package |-> package_name[1], path |-> path]>>

RECURSIVE ExternalUses(_, _, _, _)
ExternalUses(r, fsys, path, imports) ==
    IF imports = <<>> THEN <<>>
    ELSE ExternalUse(path, PackageNameOf(r, fsys, Head(imports).specifier))
         \o ExternalUses(r, fsys, path, Tail(imports))

RECURSIVE AllExternalUses(_, _, _, _)
AllExternalUses(r, fsys, parsed, files) ==
    IF files = <<>> THEN <<>>
    ELSE (IF IsSome(parsed[Head(files)])
          THEN ExternalUses(r, fsys, Head(files), Unwrap(parsed[Head(files)]).imports)
          ELSE <<>>)
         \o AllExternalUses(r, fsys, parsed, Tail(files))

\* The sub-sequence of the uses of one package, as the paths.
RECURSIVE UsesOfPackage(_, _)
UsesOfPackage(uses, package) ==
    IF uses = <<>> THEN <<>>
    ELSE (IF Head(uses).package = package THEN <<Head(uses).path>> ELSE <<>>)
         \o UsesOfPackage(Tail(uses), package)

\* The external_imports map of the recorded uses.
ExternalImportsOf(uses) ==
    [package \in {uses[i].package : i \in 1..Len(uses)} |-> UsesOfPackage(uses, package)]

\* The resolution loop and the result of build_graph_with_options: parsed maps
\* each project file to Some(ParsedModule), or to None when it was dropped.
BuildGraph(r, fsys, project_files, entry_points, parsed) ==
    [modules |-> [path \in {f \in Range(project_files) : IsSome(parsed[f])} |->
                    BuildModule(r, fsys, path, Unwrap(parsed[path]))],
     entry_points |-> entry_points,
     external_imports |-> ExternalImportsOf(AllExternalUses(r, fsys, parsed, project_files))]

\* The lists of analyze_project_with_options that the analyses of a graph fill.
IssuesOf(unused_files, unused, unused_deps, unlisted, unresolved) ==
    [files |-> unused_files, exports |-> unused.exports, types |-> unused.types,
     dependencies |-> unused_deps.deps, dev_dependencies |-> unused_deps.dev,
     unlisted |-> unlisted, unresolved |-> unresolved]

\* analyzer/mod.rs: the analyses of analyze_project_with_options on the graph.
AnalyzeIssues(g, cfg, options) ==
    IssuesOf(find_unused_files(g, cfg), find_unused_exports(g, cfg),
             find_unused_dependencies(g, cfg, options),
             find_unlisted_dependencies(g, cfg, options),
             find_unresolved_imports(g, cfg))

\* AnalyzeOptions::default(), as far as the graph and the analyses read it.
DefaultOptions == [production |-> FALSE, strict |-> FALSE]

(***************************************************************************)
(* State.                                                                  *)
(*   graph          the ModuleGraph under analysis                         *)
(*   reach          the worklist of get_reachable_files: [reachable, queue]*)
(*   gpc            where the caller of the graph's methods stands         *)
(*   acfg           the resolved configuration of the run or analysis      *)
(*   options        the AnalyzeOptions of the run: [production, strict]    *)
(*   issues         the diagnostic lists of the last analysis              *)
(*   fs             the project on disk: path -> source text               *)
(*   mtimes         path -> modification time of the file                  *)
(*   cachefile      the cache file: None or Some(CacheData)                *)
(*   hashed         path -> the texts an entry was ever stored for         *)
(*   pc             "idle", "parsing" or "done"                            *)
(*   runs, edits    how many runs were started and edits made              *)
(*   project_files  the run's file list                                    *)
(*   cache          the run's Cache: None when disabled, else Some(Cache)  *)
(*   tasks          path -> where the file's parse task stands             *)
(*   results        path -> what the task returned, None before and when   *)
(*                  the file was dropped                                   *)
(*   call           the last call on a Cache of its own: [op, ok, path,    *)
(*                  entry, before, n], n the inserts made so far           *)
(*   lock           the task that holds the run's cache mutex, or None      *)
(*   resolution     the last call of resolve on a resolver of its own:     *)
(*                  [resolver, fsys, specifier, from, result], or None     *)
(***************************************************************************)
VARIABLES graph, reach, gpc, acfg, options, issues,
          fs, mtimes, cachefile, hashed, pc, runs, edits,
          project_files, cache, tasks, results,
          parsed_module, cache_entry, rebuilt_module, cpc, call,
          lock, resolution

gvars == <<graph, reach, gpc, acfg, options, issues>>
pvars == <<fs, mtimes, cachefile, hashed, pc, runs, edits, project_files, cache, tasks, results>>
cvars == <<parsed_module, cache_entry, rebuilt_module, cpc, call>>
xvars == <<lock, resolution>>

vars == <<graph, reach, gpc, acfg, options, issues,
          fs, mtimes, cachefile, hashed, pc, runs, edits,
          project_files, cache, tasks, results,
          parsed_module, cache_entry, rebuilt_module, cpc, call,
          lock, resolution>>


(***************************************************************************)
(* The graphs of SpecGraph: every graph over three paths in which each     *)
(* module holds one of the import lists below.  A graph's methods are      *)
(* public, so a caller may hold any such graph: entry points and resolved  *)
(* paths need not be keys.                                                 *)
(***************************************************************************)
Root == <<"/", "p">>

PIndex == <<"/", "p", "/", "src", "/", "index", ".", "ts">>
PTest == <<"/", "p", "/", "src", "/", "u", ".", "test", ".", "ts">>
PLib == <<"/", "p", "/", "lib", "/", "inner", ".", "ts">>

GPaths == {PIndex, PTest, PLib}

\* The specifier a module of the family writes for a target.
GSpecifier(target) ==
    IF target = Some(PIndex) THEN <<".", "/", "index">>
    ELSE IF target = Some(PTest) THEN <<".", "/", "u", ".", "test">>
    ELSE IF target = Some(PLib) THEN <<".", ".", "/", "lib", "/", "inner">>
    ELSE <<".", "/", "u">>

GImport(kind, target, line) ==
    [original |->
        [specifier |-> GSpecifier(target),
         imported_names |->
            IF kind = "named" THEN <<[name |-> "a", alias |-> None, is_type |-> FALSE]>>
            ELSE IF kind = "default"
            THEN <<[name |-> "default", alias |-> Some("d"), is_type |-> FALSE]>>
            ELSE IF kind = "namespace"
            THEN <<[name |-> "*", alias |-> Some("ns"), is_type |-> FALSE]>>
            ELSE IF kind = "dynamic"
            THEN <<[name |-> "*", alias |-> None, is_type |-> FALSE]>>
            ELSE <<>>,
         is_type_only |-> FALSE,
         is_side_effect |-> kind = "side_effect",
         line |-> line,
         col |-> 1],
     resolved_path |-> target,
     package_name |-> None]

\* The import lists a module of the family may hold.
GImportLists(path) ==
    IF path = PIndex
    THEN {<<>>,
          <<GImport("named", Some(PTest), 1)>>,
          <<GImport("namespace", Some(PTest), 1)>>,
          <<GImport("side_effect", Some(PLib), 1)>>,
          <<GImport("dynamic", Some(PLib), 1)>>,
          <<GImport("named", None, 1)>>,
          <<GImport("named", Some(PTest), 1), GImport("named", Some(PLib), 2)>>}
    ELSE IF path = PTest
    THEN {<<>>,
          <<GImport("named", Some(PLib), 1)>>,
          <<GImport("default", Some(PIndex), 1)>>,
          <<GImport("namespace", Some(PLib), 1)>>}
    ELSE {<<>>,
          <<GImport("named", Some(PIndex), 1)>>,
          <<GImport("named", Some(PTest), 1)>>,
          <<GImport("named", Some(PLib), 1)>>}

GExports(path) ==
    IF path = PIndex
    THEN <<MkExport("main", EK_Const, FALSE, FALSE, 2, 1),
           MkExport("default", EK_Default, FALSE, TRUE, 3, 1)>>
    ELSE IF path = PTest
    THEN <<MkExport("a", EK_Const, FALSE, FALSE, 1, 1),
           MkExport("T", EK_Type, TRUE, FALSE, 2, 1)>>
    ELSE <<MkExport("a", EK_Const, FALSE, FALSE, 1, 1),
           MkExport("b", EK_Const, FALSE, FALSE, 1, 1),
           MkExport("I", EK_Interface, TRUE, FALSE, 2, 1)>>

GReExportLists(path) ==
    IF path = PIndex
    THEN {<<>>,
          <<[specifier |-> GSpecifier(Some(PTest)),
             exported_names |-> <<[name |-> "*", alias |-> None, is_type |-> FALSE]>>,
             is_type_only |-> FALSE, line |-> 4, col |-> 1]>>}
    ELSE {<<>>}

GModules(path) ==
    {[path |-> path, imports |-> il, exports |-> GExports(path), re_exports |-> rl] :
        il \in GImportLists(path), rl \in GReExportLists(path)}

GEntryLists == {<<>>, <<PIndex>>, <<PTest, PIndex>>, <<PLib>>, <<PIndex, PIndex>>}

GKeySets == {GPaths, {PIndex, PTest}}

Graphs ==
    UNION {[modules : {m \in [keys -> UNION {GModules(k) : k \in keys}] :
                         \A k \in keys : m[k].path = k},
            entry_points : GEntryLists,
            external_imports : {<<>>}] : keys \in GKeySets}

GConfig(ignore, ignore_exports, used_in_file, entry_exports) ==
    [root |-> Root,
     config |-> [entry |-> <<>>, project |-> <<>>, paths |-> {}, ignore |-> ignore,
                 ignore_files |-> <<>>, ignore_dependencies |-> <<>>,
                 ignore_exports |-> ignore_exports,
                 ignore_exports_used_in_file |-> used_in_file,
                 include_entry_exports |-> entry_exports],
     tsconfig |-> None,
     package_json |-> None]

GConfigs ==
    {GConfig(<<>>, {}, FALSE, FALSE),
     GConfig(<<>>, {}, TRUE, FALSE),
     GConfig(<<>>, {}, FALSE, TRUE),
     GConfig(<<(<<"lib">>)>>, {}, FALSE, FALSE),
     GConfig(<<(<<"lib", "/", "*">>)>>,
             {[pattern |-> <<"*", "*", "/", "*", ".", "ts">>, names |-> <<"b">>]},
             FALSE, FALSE),
     GConfig(<<(<<"[", "*">>), (<<"index">>)>>, {}, FALSE, FALSE)}

NoIssues ==
    [files |-> <<>>, exports |-> <<>>, types |-> <<>>, dependencies |-> <<>>,
     dev_dependencies |-> <<>>, unlisted |-> <<>>, unresolved |-> <<>>]

\* SpecGraph has no project on disk.
\* No conversion between a parsed module and a cache entry is under way.
NoCall == [op |-> "none", ok |-> TRUE, path |-> <<>>, entry |-> None, before |-> <<>>, n |-> 0]

NoConversion ==
    /\ parsed_module = None
    /\ cache_entry = None
    /\ rebuilt_module = None
    /\ cpc = "idle"
    /\ call = NoCall
    /\ lock = None
    /\ resolution = None

NoProject ==
    /\ fs = <<>>
    /\ mtimes = <<>>
    /\ cachefile = None
    /\ hashed = <<>>
    /\ pc = "idle"
    /\ runs = 0
    /\ edits = 0
    /\ project_files = <<>>
    /\ cache = None
    /\ tasks = <<>>
    /\ results = <<>>

InitGraph ==
    /\ graph \in Graphs
    /\ reach = [reachable |-> {}, queue |-> <<>>]
    /\ gpc = "idle"
    /\ acfg = GConfig(<<>>, {}, FALSE, FALSE)
    /\ options = DefaultOptions
    /\ issues = NoIssues
    /\ NoProject
    /\ NoConversion

\* get_reachable_files is entered: the queue is a copy of the entry points.
ReachStart ==
    /\ gpc = "idle"
    /\ reach' = [reachable |-> {}, queue |-> graph.entry_points]
    /\ gpc' = "reach"
    /\ UNCHANGED <<graph, acfg, options, issues>>
    /\ UNCHANGED pvars
    /\ UNCHANGED cvars
    /\ UNCHANGED xvars

\* One iteration of its while loop.
ReachIterate ==
    /\ gpc = "reach"
    /\ reach.queue # <<>>
    /\ reach' = ReachStep(graph, reach)
    /\ UNCHANGED <<graph, gpc, acfg, options, issues>>
    /\ UNCHANGED pvars
    /\ UNCHANGED cvars
    /\ UNCHANGED xvars

\* The queue is empty: the reachable set is returned.
ReachReturn ==
    /\ gpc = "reach"
    /\ reach.queue = <<>>
    /\ gpc' = "reached"
    /\ UNCHANGED <<graph, reach, acfg, options, issues>>
    /\ UNCHANGED pvars
    /\ UNCHANGED cvars
    /\ UNCHANGED xvars

\* The analyses of analyze_project_with_options over the graph, under a
\* configuration.
AnalyzeGraph ==
    /\ gpc = "reached"
    /\ \E cfg \in GConfigs :
        /\ acfg' = cfg
        /\ issues' = AnalyzeIssues(graph, cfg, options)
    /\ gpc' = "analyzed"
    /\ UNCHANGED <<graph, reach, options>>
    /\ UNCHANGED pvars
    /\ UNCHANGED cvars
    /\ UNCHANGED xvars

NextGraph ==
    \/ ReachStart
    \/ ReachIterate
    \/ ReachReturn
    \/ AnalyzeGraph

SpecGraph == InitGraph /\ [][NextGraph]_vars

(***************************************************************************)
(* Claims over SpecGraph.                                                  *)
(***************************************************************************)
\* C1: the set get_reachable_files returns contains every entry point, and
\* whenever a module in it has an import whose resolved_path is a key of the
\* graph, that key is in the set too (so chains A -> B -> C are followed).
C1_ReachableClosed ==
    gpc \in {"reached", "analyzed"} =>
        /\ \A i \in 1..Len(graph.entry_points) : graph.entry_points[i] \in reach.reachable
        /\ \A a \in reach.reachable \cap DOMAIN graph.modules :
             \A i \in 1..Len(graph.modules[a].imports) :
                LET target == graph.modules[a].imports[i].resolved_path
                IN  (IsSome(target) /\ Unwrap(target) \in DOMAIN graph.modules)
                        => Unwrap(target) \in reach.reachable
        /\ get_reachable_files(graph) = reach.reachable

\* The traversal has returned on a chain index -> u.test -> inner entered at
\* index only, and on a module with two imports.
C1_Witness ==
    /\ gpc = "reached"
    /\ graph.entry_points = <<PIndex>>
    /\ Len(graph.modules[PIndex].imports) = 2
    /\ PLib \in DOMAIN graph.modules
    /\ \E i \in 1..Len(graph.modules[PTest].imports) :
          graph.modules[PTest].imports[i].resolved_path = Some(PLib)
    /\ reach.reachable = {PIndex, PTest, PLib}

\* C2: the unused-files list is exactly the graph keys outside the reachable
\* set that match no ignore pattern and are no test files; no reachable file is
\* reported, and without entry points every non-ignored non-test key is.
C2_UnusedFilesExact ==
    gpc = "analyzed" =>
        LET kept == {k \in DOMAIN graph.modules :
                       /\ ~\E i \in 1..Len(acfg.config.ignore) :
                              IgnorePatternMatches(acfg.config.ignore[i], RelativeTo(acfg.root, k))
                       /\ ~is_test_file(RelativeTo(acfg.root, k))}
        IN  /\ Range(issues.files) = kept \ reach.reachable
            /\ Len(issues.files) = Cardinality(kept \ reach.reachable)
            /\ Range(issues.files) \cap reach.reachable = {}
            /\ graph.entry_points = <<>> => Range(issues.files) = kept

\* An analysis in which one unreachable key is reported, one is left out as a
\* test file and one is left out by an ignore pattern.
C2_Witness ==
    /\ gpc = "analyzed"
    /\ DOMAIN graph.modules = GPaths
    /\ reach.reachable = {}
    /\ acfg.config.ignore = <<(<<"lib", "/", "*">>)>>
    /\ issues.files = <<PIndex>>

\* C3: when an importer records the sentinel "*" for a file (a namespace, dynamic
\* or side-effect import resolved to it), none of the file's exports is on the
\* unused-exports list or the unused-types list.
C3_SentinelSuppresses ==
    gpc = "analyzed" =>
        \A f \in DOMAIN graph.modules :
            (\E k \in DOMAIN graph.modules : \E i \in 1..Len(graph.modules[k].imports) :
                LET import == graph.modules[k].imports[i]
                IN  /\ import.resolved_path = Some(f)
                    /\ \/ import.original.is_side_effect
                       \/ \E n \in 1..Len(import.original.imported_names) :
                             import.original.imported_names[n].name = "*")
            => /\ \A i \in 1..Len(issues.exports) : issues.exports[i].path # f
               /\ \A i \in 1..Len(issues.types) : issues.types[i].path # f

\* A side-effect import of a reachable file with value and type exports, under a
\* configuration that suppresses nothing, while another file's export is reported.
C3_Witness ==
    /\ gpc = "analyzed"
    /\ PLib \in reach.reachable
    /\ PLib \in DOMAIN graph.modules
    /\ \E i \in 1..Len(graph.modules[PIndex].imports) :
          /\ graph.modules[PIndex].imports[i].resolved_path = Some(PLib)
          /\ graph.modules[PIndex].imports[i].original.is_side_effect
    /\ ~acfg.config.ignore_exports_used_in_file
    /\ acfg.config.ignore_exports = {}
    /\ issues.exports # <<>>

(***************************************************************************)
(* The projects of Spec: three files under /p/src, each holding one of a   *)
(* few source texts or missing.  A text's number identifies its bytes.     *)
(***************************************************************************)
PU == <<"/", "p", "/", "src", "/", "u", ".", "ts">>
PInner == <<"/", "p", "/", "src", "/", "inner", ".", "ts">>

PPaths == {PIndex, PU, PInner}

ConstDecl(name, line, col) ==
    [t |-> "ExportDecl",
     decl |-> [t |-> "Var", kind |-> "const",
               decls |-> <<[name |-> [t |-> "Ident", sym |-> name],
                            init |-> Some([t |-> "Lit"])]>>],
     line |-> line, col |-> col]

\* import {a} from "./u";
\* export const main = a;
SrcIndexNamed ==
    [text |-> 1, utf8 |-> TRUE, uses_ts |-> FALSE, uses_jsx |-> FALSE,
     body |-> Some(<<
        [t |-> "Import", src |-> <<".", "/", "u">>,
         specifiers |-> <<[t |-> "Named", local |-> "a", imported |-> None,
                           is_type_only |-> FALSE]>>,
         type_only |-> FALSE, line |-> 1, col |-> 1],
        [t |-> "ExportDecl",
         decl |-> [t |-> "Var", kind |-> "const",
                   decls |-> <<[name |-> [t |-> "Ident", sym |-> "main"],
                                init |-> Some([t |-> "Ident", sym |-> "a"])]>>],
         line |-> 2, col |-> 1]>>)]

\* export async function run(){ const m = await import("./u"); return m; }
SrcIndexDynamic ==
    [text |-> 2, utf8 |-> TRUE, uses_ts |-> FALSE, uses_jsx |-> FALSE,
     body |-> Some(<<
        [t |-> "ExportDecl",
         decl |-> [t |-> "Fn", ident |-> "run",
                   body |-> <<
                      [t |-> "Decl",
                       decl |-> [t |-> "Var", kind |-> "const",
                                 decls |-> <<[name |-> [t |-> "Ident", sym |-> "m"],
                                              init |-> Some(
                                                [t |-> "Await",
                                                 arg |-> [t |-> "Call", callee |-> "Import",
                                                          args |-> <<[t |-> "LitStr",
                                                                      value |-> <<".", "/", "u">>]>>,
                                                          line |-> 1, col |-> 47]])]>>]],
                      [t |-> "Return", arg |-> Some([t |-> "Ident", sym |-> "m"])]>>],
         line |-> 1, col |-> 1]>>)]

\* export * from "./u";
SrcIndexStar ==
    [text |-> 3, utf8 |-> TRUE, uses_ts |-> FALSE, uses_jsx |-> FALSE,
     body |-> Some(<<
        [t |-> "ExportAll", src |-> <<".", "/", "u">>, type_only |-> FALSE,
         line |-> 1, col |-> 1]>>)]

\* export const a = 1;
\* export const b = 2;
SrcUAB ==
    [text |-> 4, utf8 |-> TRUE, uses_ts |-> FALSE, uses_jsx |-> FALSE,
     body |-> Some(<<ConstDecl("a", 1, 1), ConstDecl("b", 2, 1)>>)]

\* export const x = 1;
SrcUX ==
    [text |-> 5, utf8 |-> TRUE, uses_ts |-> FALSE, uses_jsx |-> FALSE,
     body |-> Some(<<ConstDecl("x", 1, 1)>>)]

\* export {x} from "./inner";
SrcUBarrel ==
    [text |-> 8, utf8 |-> TRUE, uses_ts |-> FALSE, uses_jsx |-> FALSE,
     body |-> Some(<<
        [t |-> "ExportNamed", src |-> Some(<<".", "/", "inner">>),
         specifiers |-> <<[t |-> "Named", orig |-> "x", exported |-> None,
                           is_type_only |-> FALSE]>>,
         type_only |-> FALSE, line |-> 1, col |-> 1]>>)]

\* export const = ;
SrcUBroken ==
    [text |-> 7, utf8 |-> TRUE, uses_ts |-> FALSE, uses_jsx |-> FALSE, body |-> None]

\* export const x = 1; with a byte that is not UTF-8 in a comment.
SrcULatin1 ==
    [text |-> 10, utf8 |-> FALSE, uses_ts |-> FALSE, uses_jsx |-> FALSE,
     body |-> Some(<<ConstDecl("x", 1, 1)>>)]

\* export const x = 1; export const y = 2;
SrcInnerXY ==
    [text |-> 6, utf8 |-> TRUE, uses_ts |-> FALSE, uses_jsx |-> FALSE,
     body |-> Some(<<ConstDecl("x", 1, 1), ConstDecl("y", 1, 21)>>)]

Contents(path) ==
    IF path = PIndex THEN {SrcIndexNamed, SrcIndexDynamic, SrcIndexStar}
    ELSE IF path = PU THEN {SrcUAB, SrcUX, SrcUBarrel, SrcUBroken, SrcULatin1}
    ELSE {SrcInnerXY}

\* Scenario 1, 2 and 5 of the fixtures.
Scenario1 == (PIndex :> SrcIndexNamed) @@ (PU :> SrcUAB)

Scenario2 == (PIndex :> SrcIndexDynamic) @@ (PU :> SrcUX)

Scenario5 == (PIndex :> SrcIndexStar) @@ (PU :> SrcUBarrel) @@ (PInner :> SrcInnerXY)

InitialProjects == {Scenario1, Scenario2, Scenario5}

\* The file system the resolver looks at.
Fsys(files) == [files |-> DOMAIN files, manifests |-> <<>>]

\* The configurations of a run: no configuration file (Config::default), and a
\* configuration file that leaves every key out.
RunConfigs == {GConfig(<<>>, {}, FALSE, FALSE), GConfig(<<>>, {}, TRUE, FALSE)}

MaxRuns == 2
MaxEdits == 1
SmallMaxEntries == 2

\* The caches a run is given: none, the one create_cache makes, and one a
\* caller of build_graph_with_options made with its own CacheConfig.
CacheModes == {"none", "default", "small"}

CacheConfigOf(mode) ==
    IF mode = "small" THEN [max_age |-> 0, max_entries |-> SmallMaxEntries]
    ELSE DefaultCacheConfig

EmptyGraph == [modules |-> <<>>, entry_points |-> <<>>, external_imports |-> <<>>]

\* The time an edit stamps on the file.
Now == edits + 2

\* The cache lookup of a parse task without the comparison of the hashes.
CachedParse_ignores_hash(c, path, content_hash) ==
    IF IsSome(CacheGet(c, path))
    THEN Some([imports |-> to_imports(Unwrap(CacheGet(c, path))),
               exports |-> to_exports(Unwrap(CacheGet(c, path))),
               re_exports |-> to_re_exports(Unwrap(CacheGet(c, path)))])
    ELSE None

\* The ParsedModule a task rebuilds from an entry.
ParsedOfEntry(entry) ==
    [imports |-> to_imports(entry), exports |-> to_exports(entry),
     re_exports |-> to_re_exports(entry)]

\* The comparison of a looked-up entry with the hash of the text read.
HitOf(entry, content_hash) ==
    IF entry # None /\ entry[1].content_hash = content_hash
    THEN Some(ParsedOfEntry(entry[1]))
    ELSE None

\* graph/builder.rs: the cache lookup of a parse task in build_graph_with_options:
\* Some(ParsedModule) rebuilt from the entry on a hit, None on a miss.
CachedParse(c, path, content_hash) == HitOf(CacheGet(c, path), content_hash)

Init ==
    /\ fs \in InitialProjects
    /\ mtimes = [path \in DOMAIN fs |-> 1]
    /\ cachefile = None
    /\ hashed = [path \in PPaths |-> {}]
    /\ pc = "idle"
    /\ runs = 0
    /\ edits = 0
    /\ project_files = <<>>
    /\ cache = None
    /\ tasks = <<>>
    /\ results = <<>>
    /\ graph = EmptyGraph
    /\ issues = NoIssues
    /\ acfg = GConfig(<<>>, {}, FALSE, FALSE)
    /\ options = DefaultOptions
    /\ reach = [reachable |-> {}, queue |-> <<>>]
    /\ gpc = "idle"
    /\ NoConversion

\* analyze_project_with_options up to the parallel parse: the cache is created,
\* the project files are collected, one parse task per file is pending.
StartRun ==
    /\ pc \in {"idle", "done"}
    /\ runs < MaxRuns
    /\ \E cfg \in RunConfigs, mode \in CacheModes :
        /\ acfg' = cfg
        /\ cache' = IF mode = "none" THEN None
                    ELSE Some(CacheNew(cachefile, CacheConfigOf(mode)))
        /\ project_files' \in collect_project_files(DOMAIN fs, cfg, options.production)
    /\ tasks' = [path \in Range(project_files') |-> "todo"]
    /\ results' = [path \in Range(project_files') |-> None]
    /\ pc' = "parsing"
    /\ runs' = runs + 1
    /\ graph' = EmptyGraph
    /\ issues' = NoIssues
    /\ UNCHANGED <<fs, mtimes, cachefile, hashed, edits, reach, gpc, options>>
    /\ UNCHANGED cvars
    /\ UNCHANGED xvars

\* The return of a task on a hit, and its way on to the parser on a miss.
LookedUp(path, hit) ==
    IF hit # None
    THEN /\ tasks' = [tasks EXCEPT ![path] = "hit"]
         /\ results' = [results EXCEPT ![path] = hit]
    ELSE /\ tasks' = [tasks EXCEPT ![path] = "miss"]
         /\ UNCHANGED results

\* The task's branch on read_to_string: a file that cannot be read is dropped.
ReadThenLookUp(path, content) ==
    IF content = None
    THEN /\ tasks' = [tasks EXCEPT ![path] = "failed"]
         /\ UNCHANGED results
    ELSE LookedUp(path, CachedParse(Unwrap(cache), path, compute_content_hash(content[1])))

\* A task of a cache-enabled run reads its file, hashes it and looks the path up.
Lookup(path) ==
    /\ pc = "parsing"
    /\ IsSome(cache)
    /\ path \in DOMAIN tasks
    /\ tasks[path] = "todo"
    /\ ReadThenLookUp(path, read_to_string(fs, path))
    /\ UNCHANGED <<fs, mtimes, cachefile, hashed, pc, runs, edits, project_files, cache>>
    /\ UNCHANGED gvars
    /\ UNCHANGED cvars
    /\ UNCHANGED xvars

\* A task that stores an entry without imports and exports for a text that
\* does not parse.
Stored_caches_failures(path, parsed) ==
    IF parsed # None
    THEN /\ \E c \in CacheInsert(Unwrap(cache), path,
                                 from_parsed(compute_content_hash(fs[path]),
                                             get_modified_time(mtimes, path),
                                             parsed[1].imports,
                                             parsed[1].exports,
                                             parsed[1].re_exports)) :
               cache' = Some(c)
         /\ hashed' = [hashed EXCEPT ![path] = @ \cup {fs[path].text}]
         /\ tasks' = [tasks EXCEPT ![path] = "parsed"]
         /\ results' = [results EXCEPT ![path] = parsed]
    ELSE /\ \E c \in CacheInsert(Unwrap(cache), path,
                                 from_parsed(compute_content_hash(fs[path]),
                                             get_modified_time(mtimes, path),
                                             <<>>, <<>>, <<>>)) :
               cache' = Some(c)
         /\ tasks' = [tasks EXCEPT ![path] = "failed"]
         /\ UNCHANGED <<hashed, results>>

\* The entry of a parsed module is stored and the module returned; a text that
\* does not parse is dropped.
Stored(path, parsed) ==
    IF parsed # None
    THEN /\ \E c \in CacheInsert(Unwrap(cache), path,
                                 from_parsed(compute_content_hash(fs[path]),
                                             get_modified_time(mtimes, path),
                                             parsed[1].imports,
                                             parsed[1].exports,
                                             parsed[1].re_exports)) :
               cache' = Some(c)
         /\ hashed' = [hashed EXCEPT ![path] = @ \cup {fs[path].text}]
         /\ tasks' = [tasks EXCEPT ![path] = "parsed"]
         /\ results' = [results EXCEPT ![path] = parsed]
    ELSE /\ tasks' = [tasks EXCEPT ![path] = "failed"]
         /\ UNCHANGED <<cache, hashed, results>>

\* After a miss the task parses the text and, when it parses, stores an entry.
ParseInsert(path) ==
    /\ pc = "parsing"
    /\ IsSome(cache)
    /\ path \in DOMAIN tasks
    /\ tasks[path] = "miss"
    /\ Stored(path, parse_source(fs[path], path))
    /\ UNCHANGED <<fs, mtimes, cachefile, pc, runs, edits, project_files>>
    /\ UNCHANGED gvars
    /\ UNCHANGED cvars
    /\ UNCHANGED xvars

\* The return of a task without cache.
Parsed(path, parsed) ==
    /\ results' = [results EXCEPT ![path] = parsed]
    /\ tasks' = [tasks EXCEPT ![path] = IF parsed # None THEN "parsed" ELSE "failed"]

\* A task of a run without cache parses its file.
ParseFile(path) ==
    /\ pc = "parsing"
    /\ ~IsSome(cache)
    /\ path \in DOMAIN tasks
    /\ tasks[path] = "todo"
    /\ Parsed(path, parse_file(fs, path))
    /\ UNCHANGED <<fs, mtimes, cachefile, hashed, pc, runs, edits, project_files, cache>>
    /\ UNCHANGED gvars
    /\ UNCHANGED cvars
    /\ UNCHANGED xvars

\* Every task has returned: the cache is saved, the imports are resolved, the
\* graph is built and analysed.
FinishRun ==
    /\ pc = "parsing"
    /\ \A path \in DOMAIN tasks : tasks[path] \in {"hit", "parsed", "failed"}
    /\ cachefile' = IF IsSome(cache) THEN CacheSave(Unwrap(cache), cachefile) ELSE cachefile
    /\ \E paths \in IterationOrders(MergedPaths(acfg)) :
          graph' = BuildGraph(create_resolver(acfg, paths), Fsys(fs), project_files,
                              find_entry_points(acfg, project_files), results)
    /\ issues' = AnalyzeIssues(graph', acfg, options)
    /\ pc' = "done"
    /\ cache' = None
    /\ UNCHANGED <<fs, mtimes, hashed, runs, edits, project_files, tasks, results, acfg,
                   reach, gpc, options>>
    /\ UNCHANGED cvars
    /\ UNCHANGED xvars

\* What an edit leaves of the last run.
ForgetRun ==
    /\ pc' = "idle"
    /\ tasks' = <<>>
    /\ results' = <<>>
    /\ graph' = EmptyGraph
    /\ issues' = NoIssues
    /\ acfg' = GConfig(<<>>, {}, FALSE, FALSE)
    /\ project_files' = <<>>
    /\ UNCHANGED <<cachefile, hashed, runs, cache, reach, gpc, options>>
    /\ UNCHANGED cvars
    /\ UNCHANGED xvars

\* Between runs a file is written: created, or given another text.
WriteFile(path) ==
    /\ pc \in {"idle", "done"}
    /\ edits < MaxEdits
    /\ \E src \in Contents(path) :
        /\ path \in DOMAIN fs => fs[path] # src
        /\ fs' = With(fs, path, src)
    /\ mtimes' = With(mtimes, path, Now)
    /\ edits' = edits + 1
    /\ ForgetRun

\* Between runs a file is deleted.
DeleteFile(path) ==
    /\ pc \in {"idle", "done"}
    /\ edits < MaxEdits
    /\ path \in DOMAIN fs
    /\ fs' = Without(fs, {path})
    /\ mtimes' = Without(mtimes, {path})
    /\ edits' = edits + 1
    /\ ForgetRun

\* Between runs a file's modification time changes and its text does not.
TouchFile(path) ==
    /\ pc \in {"idle", "done"}
    /\ edits < MaxEdits
    /\ path \in DOMAIN fs
    /\ mtimes' = With(mtimes, path, Now)
    /\ edits' = edits + 1
    /\ UNCHANGED fs
    /\ ForgetRun

Next ==
    \/ StartRun
    \/ \E path \in PPaths : Lookup(path)
    \/ \E path \in PPaths : ParseInsert(path)
    \/ \E path \in PPaths : ParseFile(path)
    \/ FinishRun
    \/ \E path \in PPaths : WriteFile(path)
    \/ \E path \in PPaths : DeleteFile(path)
    \/ \E path \in PPaths : TouchFile(path)

Spec == Init /\ [][Next]_vars

(***************************************************************************)
(* Properties of a finished run.                                           *)
(***************************************************************************)
\* The file a specifier written in the module from designates.
Designates(specifier, from) ==
    resolve(create_resolver(acfg, <<>>), Fsys(fs), specifier, from)

\* The unused-exports list names the export of the file.
Reported(path, name) ==
    \E i \in 1..Len(issues.exports) :
        issues.exports[i].path = path /\ issues.exports[i].name = name

\* No import and no re-export of the graph names the export of the file.
Unreferenced(path, name) ==
    /\ \A k \in DOMAIN graph.modules : \A i \in 1..Len(graph.modules[k].imports) :
          graph.modules[k].imports[i].resolved_path = Some(path)
              => ImportUses(graph.modules[k].imports[i]) \cap {name, "*"} = {}
    /\ \A k \in DOMAIN graph.modules : \A i \in 1..Len(graph.modules[k].re_exports) :
          Designates(graph.modules[k].re_exports[i].specifier, k) = Some(path)
              => \A j \in 1..Len(graph.modules[k].re_exports[i].exported_names) :
                    graph.modules[k].re_exports[i].exported_names[j].name \notin {name, "*"}

\* C4: after a run, for every reachable module A and every star re-export
\* `export * from "s"` of A whose specifier designates a module B of the graph,
\* B is in the reachable set.
C4_StarReExportReachable ==
    pc = "done" =>
        \A a \in get_reachable_files(graph) \cap DOMAIN graph.modules :
            \A i \in 1..Len(graph.modules[a].re_exports) :
                (\E j \in 1..Len(graph.modules[a].re_exports[i].exported_names) :
                    graph.modules[a].re_exports[i].exported_names[j].name = "*")
                => \A b \in DOMAIN graph.modules :
                      Designates(graph.modules[a].re_exports[i].specifier, a) = Some(b)
                          => b \in get_reachable_files(graph)

\* C5: after a run, for every reachable module that re-exports a name x from a
\* specifier designating a module inner of the graph, x is not on the
\* unused-exports list for inner, and (when unused exports are reported at all)
\* every export of inner that no import and no re-export names is on it.
C5_BarrelReExportUses ==
    pc = "done" =>
        \A b \in get_reachable_files(graph) \cap DOMAIN graph.modules :
            \A i \in 1..Len(graph.modules[b].re_exports) :
                \A j \in 1..Len(graph.modules[b].re_exports[i].exported_names) :
                    \A inner \in DOMAIN graph.modules :
                        (/\ graph.modules[b].re_exports[i].exported_names[j].name # "*"
                         /\ Designates(graph.modules[b].re_exports[i].specifier, b) = Some(inner))
                        => \A e \in 1..Len(graph.modules[inner].exports) :
                              /\ graph.modules[inner].exports[e].name
                                    = graph.modules[b].re_exports[i].exported_names[j].name
                                 => ~Reported(inner, graph.modules[inner].exports[e].name)
                              /\ (/\ ~acfg.config.ignore_exports_used_in_file
                                  /\ Unreferenced(inner, graph.modules[inner].exports[e].name))
                                 => Reported(inner, graph.modules[inner].exports[e].name)

\* C6: after a run on the project whose entry module refers to u only through
\* a literal dynamic import inside the body of an exported async function, the
\* unused-files list is empty and the unused-exports list is empty.
C6_DynamicImportInFunction ==
    (pc = "done" /\ fs = Scenario2) =>
        issues.files = <<>> /\ issues.exports = <<>>

\* C7: after a run on the project whose entry module imports only a from u and
\* declares `export const main`, where u exports a and b, the unused-exports
\* list holds one entry, (u, b), and the unused-files list is empty.
C7_OneUnusedExport ==
    (pc = "done" /\ fs = Scenario1) =>
        /\ issues.files = <<>>
        /\ Len(issues.exports) = 1
        /\ issues.exports[1].path = PU
        /\ issues.exports[1].name = "b"

\* The graphs and the diagnostic lists of a run without cache on the files as
\* they are.
UncachedGraphs ==
    {BuildGraph(create_resolver(acfg, paths), Fsys(fs), project_files,
                find_entry_points(acfg, project_files),
                [path \in Range(project_files) |-> parse_file(fs, path)]) :
        paths \in IterationOrders(MergedPaths(acfg))}

UncachedIssues == {AnalyzeIssues(g, acfg, options) : g \in UncachedGraphs}

\* No file's text has the hash of another text of that file for which an
\* earlier run stored an entry.
NoCollision ==
    \A path \in DOMAIN fs : \A text \in hashed[path] :
        text # fs[path].text => TextHash(text) # compute_content_hash(fs[path])

\* C8, as stated: whatever the earlier runs and the edits between them left in
\* the cache, a finished run has the diagnostic lists of a run without cache on
\* the same files.
C8_CacheEquivalent == pc = "done" => issues \in UncachedIssues

\* C8, amended: a finished run has the graph and the diagnostic lists of a run
\* without cache on the same files, provided no file's text has the content
\* hash of a different text of that file stored by an earlier run.
C8_CacheEquivalentNoCollision ==
    (pc = "done" /\ NoCollision) => graph \in UncachedGraphs /\ issues \in UncachedIssues

\* A second run after an edit took one parse from the cache and re-parsed a
\* file whose text had changed, without a collision.
C8_Witness ==
    /\ pc = "done"
    /\ NoCollision
    /\ \E path \in DOMAIN tasks : tasks[path] = "hit"
    /\ \E path \in DOMAIN tasks : tasks[path] = "parsed" /\ Cardinality(hashed[path]) = 2

\* The cache with another max_age and another modified_time on the entry of path.
Retimed(c, path, max_age, modified_time) ==
    [c EXCEPT !.config.max_age = max_age,
              !.data.entries = [k \in DOMAIN c.data.entries |->
                                  IF k = path
                                  THEN [c.data.entries[k] EXCEPT !.modified_time = modified_time]
                                  ELSE c.data.entries[k]]]

\* C10: the lookup of a task that read its file returns the cached parse if and only if is_valid holds
\* for the path and the hash of the file's text, is_valid holds exactly when the
\* path has an entry with that content_hash, and neither changes with the
\* entry's modified_time or the configured max_age.
C10_HitIffHashMatches ==
    [][\A path \in PPaths :
          (/\ pc = "parsing"
           /\ cache # None
           /\ path \in DOMAIN tasks
           /\ tasks[path] = "todo"
           /\ tasks'[path] # "todo"
           /\ read_to_string(fs, path) # None)
          => /\ (tasks'[path] = "hit")
                   = is_valid(cache[1], path, compute_content_hash(fs[path]))
             /\ is_valid(cache[1], path, compute_content_hash(fs[path]))
                   = (/\ path \in DOMAIN cache[1].data.entries
                      /\ cache[1].data.entries[path].content_hash
                            = compute_content_hash(fs[path]))
             /\ \A max_age \in {0, 1, DefaultCacheConfig.max_age} :
                   \A modified_time \in 0..(MaxEdits + 2) :
                      /\ is_valid(Retimed(cache[1], path, max_age, modified_time), path,
                                  compute_content_hash(fs[path]))
                            = is_valid(cache[1], path, compute_content_hash(fs[path]))
                      /\ IsSome(CachedParse(Retimed(cache[1], path, max_age, modified_time),
                                            path, compute_content_hash(fs[path])))
                            = (tasks'[path] = "hit")]_vars

\* A hit on an entry whose modified_time is not the file's, under max_age 0.
C10_Witness ==
    /\ pc = "parsing"
    /\ cache # None
    /\ cache[1].config.max_age = 0
    /\ \E path \in DOMAIN tasks :
          /\ tasks[path] = "hit"
          /\ path \in DOMAIN cache[1].data.entries
          /\ cache[1].data.entries[path].modified_time # get_modified_time(mtimes, path)

(***************************************************************************)
(* The conversions between a parsed module and a cache entry, over parsed  *)
(* modules of every export kind and every combination of the flags.        *)
(***************************************************************************)
ExportKinds ==
    {EK_Function, EK_Class, EK_Variable, EK_Const, EK_Let, EK_Type, EK_Interface,
     EK_Enum, EK_Namespace, EK_Default}

NameShapes ==
    {[name |-> "x", alias |-> alias, is_type |-> is_type] :
        alias \in {None, Some("y")}, is_type \in BOOLEAN}

ImportShapes ==
    {[specifier |-> <<".", "/", "u">>, imported_names |-> names,
      is_type_only |-> is_type_only, is_side_effect |-> is_side_effect,
      line |-> 1, col |-> 1] :
        names \in {<<>>} \cup {<<n>> : n \in NameShapes},
        is_type_only \in BOOLEAN, is_side_effect \in BOOLEAN}

ExportShapes ==
    {MkExport("x", kind, is_type, is_default, 2, 1) :
        kind \in ExportKinds, is_type \in BOOLEAN, is_default \in BOOLEAN}

ReExportShapes ==
    {[specifier |-> <<".", "/", "inner">>, exported_names |-> <<n>>,
      is_type_only |-> is_type_only, line |-> 3, col |-> 1] :
        n \in NameShapes, is_type_only \in BOOLEAN}

\* One export of every shape after a fixed first export, so that the order of
\* the list shows; imports and re-exports of every shape, or none.
ParsedModules ==
    {[imports |-> imports, exports |-> exports, re_exports |-> re_exports] :
        imports \in {<<>>} \cup {<<i>> : i \in ImportShapes},
        exports \in {<<MkExport("w", EK_Const, FALSE, FALSE, 1, 1), e>> : e \in ExportShapes},
        re_exports \in {<<>>} \cup {<<r>> : r \in ReExportShapes}}

InitCache ==
    /\ parsed_module \in {Some(m) : m \in ParsedModules}
    /\ cache_entry = None
    /\ rebuilt_module = None
    /\ cpc = "parsed"
    /\ call = NoCall
    /\ lock = None
    /\ resolution = None
    /\ graph = EmptyGraph
    /\ reach = [reachable |-> {}, queue |-> <<>>]
    /\ gpc = "idle"
    /\ acfg = GConfig(<<>>, {}, FALSE, FALSE)
    /\ options = DefaultOptions
    /\ issues = NoIssues
    /\ NoProject

\* CacheEntry::from_parsed on the parsed module.
FromParsed ==
    /\ cpc = "parsed"
    /\ \E content_hash \in {0, HashSpace - 1}, modified_time \in {1} :
          cache_entry' = Some(from_parsed(content_hash, modified_time,
                                          parsed_module[1].imports,
                                          parsed_module[1].exports,
                                          parsed_module[1].re_exports))
    /\ cpc' = "cached"
    /\ UNCHANGED <<parsed_module, rebuilt_module, call>>
    /\ UNCHANGED gvars
    /\ UNCHANGED pvars
    /\ UNCHANGED xvars

\* to_imports, to_exports and to_re_exports on the entry.
ToParsed ==
    /\ cpc = "cached"
    /\ rebuilt_module' = Some(ParsedOfEntry(cache_entry[1]))
    /\ cpc' = "rebuilt"
    /\ UNCHANGED <<parsed_module, cache_entry, call>>
    /\ UNCHANGED gvars
    /\ UNCHANGED pvars
    /\ UNCHANGED xvars

NextCache ==
    \/ FromParsed
    \/ ToParsed

SpecCache == InitCache /\ [][NextCache]_vars

\* C9: the module rebuilt from the entry that from_parsed made of a parsed
\* module equals that module: the same imports, exports and re-exports, field
\* by field and in the same order.
C9_RoundTrip == cpc = "rebuilt" => rebuilt_module = parsed_module

\* A module with a type-level export marked type and default, an aliased type
\* import and a re-export has gone through both conversions.
C9_Witness ==
    /\ cpc = "rebuilt"
    /\ parsed_module[1].exports[2].kind = EK_Interface
    /\ parsed_module[1].exports[2].is_type
    /\ parsed_module[1].exports[2].is_default
    /\ parsed_module[1].imports # <<>>
    /\ parsed_module[1].imports[1].imported_names # <<>>
    /\ parsed_module[1].imports[1].imported_names[1].alias # None
    /\ parsed_module[1].re_exports # <<>>

(***************************************************************************)
(* Projects with a manifest, path aliases and installed packages.          *)
(*   /p/src/index.ts     imports drawn from IndexSpecifiers               *)
(*   /p/src/a/u.ts       export const x = 1;                              *)
(*   /p/src/b/u.ts       export const a = 1; export const b = 2;          *)
(*   /p/src/u.test.ts    import "uuid";                                   *)
(*   /p/node_modules/lodash/index.js   the one installed package          *)
(* The configuration maps both "@app/*" and "@app/u" to files; the         *)
(* manifests declare the packages in different sections.                   *)
(***************************************************************************)
PAliasA == <<"/", "p", "/", "src", "/", "a", "/", "u", ".", "ts">>
PAliasB == <<"/", "p", "/", "src", "/", "b", "/", "u", ".", "ts">>
PInstalledLodash == <<"/", "p", "/", "node_modules", "/", "lodash", "/", "index", ".", "js">>

Lodash == <<"lodash">>
Uuid == <<"uuid">>
LeftPad == <<"left", "-", "pad">>
Tslib == <<"tslib">>
CoreJs == <<"core", "-", "js">>
Jest == <<"jest">>
TypesNode == <<"@", "types", "/", "node">>

\* The specifiers index.ts may import, in the order it writes them.
IndexSpecifiers ==
    <<(<<"@", "app", "/", "u">>), Lodash, Uuid, (<<".", "/", "missing">>), (<<"fs">>),
      TypesNode>>

\* import "<specifier>"; on the given line.
SideEffectImport(specifier, line) ==
    [t |-> "Import", src |-> specifier, specifiers |-> <<>>, type_only |-> FALSE,
     line |-> line, col |-> 1]

\* The members of a list whose index is selected, in the list's order.
RECURSIVE Selected(_, _, _)
Selected(list, sel, i) ==
    IF i > Len(list) THEN <<>>
    ELSE (IF i \in sel THEN <<list[i]>> ELSE <<>>) \o Selected(list, sel, i + 1)

RECURSIVE SelectionCode(_, _)
SelectionCode(sel, i) ==
    IF i = 0 THEN 0
    ELSE (IF i \in sel THEN 1 ELSE 0) + 2 * SelectionCode(sel, i - 1)

ImportLines(specifiers) ==
    [i \in 1..Len(specifiers) |-> SideEffectImport(specifiers[i], i)]

\* index.ts importing the selected specifiers, one import per line.
SrcIndexImports(sel) ==
    [text |-> 16 + SelectionCode(sel, Len(IndexSpecifiers)), utf8 |-> TRUE,
     uses_ts |-> FALSE, uses_jsx |-> FALSE, body |-> Some(ImportLines(Selected(IndexSpecifiers, sel, 1)))]

\* import "uuid";
SrcTestUuid ==
    [text |-> 9, utf8 |-> TRUE, uses_ts |-> FALSE, uses_jsx |-> FALSE,
     body |-> Some(<<SideEffectImport(Uuid, 1)>>)]

ProjectSources ==
    {(PIndex :> SrcIndexImports(sel)) @@ (PAliasA :> SrcUX) @@ (PAliasB :> SrcUAB)
        @@ (PTest :> SrcTestUuid) : sel \in SUBSET (1..Len(IndexSpecifiers))}

\* What the resolver and the walk find on disk: the sources and node_modules.
ProjectDisk(files) ==
    [files |-> DOMAIN files \cup {PInstalledLodash}, manifests |-> <<>>]

PackageJson(dependencies, dev_dependencies, peer_dependencies, optional_dependencies) ==
    [main |-> None, dependencies |-> dependencies, dev_dependencies |-> dev_dependencies,
     peer_dependencies |-> peer_dependencies,
     optional_dependencies |-> optional_dependencies]

\* No manifest; the manifest of the dependency fixture; two manifests that
\* spread the packages over the sections.
Manifests ==
    {None,
     Some(PackageJson({Lodash, LeftPad}, {}, {}, {})),
     Some(PackageJson({Uuid, Tslib, TypesNode}, {Jest, CoreJs, LeftPad}, {}, {})),
     Some(PackageJson({}, {Lodash, Tslib}, {Uuid}, {LeftPad}))}

AliasPaths ==
    {[pattern |-> <<"@", "app", "/", "*">>,
      replacements |-> <<(<<"src", "/", "a", "/", "*">>)>>],
     [pattern |-> <<"@", "app", "/", "u">>,
      replacements |-> <<(<<"src", "/", "b", "/", "u">>)>>]}

ProjectConfig(package_json, ignore_dependencies) ==
    [root |-> Root,
     config |-> [entry |-> <<>>, project |-> <<>>, paths |-> AliasPaths, ignore |-> <<>>,
                 ignore_files |-> <<>>, ignore_dependencies |-> ignore_dependencies,
                 ignore_exports |-> {},
                 ignore_exports_used_in_file |-> FALSE,
                 include_entry_exports |-> FALSE],
     tsconfig |-> None,
     package_json |-> package_json]

ProjectConfigs ==
    {ProjectConfig(package_json, ignore_dependencies) :
        package_json \in Manifests, ignore_dependencies \in {<<>>, <<LeftPad>>}}

OptionSets == [production : BOOLEAN, strict : BOOLEAN]

InitProject ==
    /\ fs \in ProjectSources
    /\ acfg \in ProjectConfigs
    /\ options \in OptionSets
    /\ mtimes = [path \in DOMAIN fs |-> 1]
    /\ cachefile = None
    /\ hashed = [path \in PPaths |-> {}]
    /\ pc = "idle"
    /\ runs = 0
    /\ edits = 0
    /\ project_files = <<>>
    /\ cache = None
    /\ tasks = <<>>
    /\ results = <<>>
    /\ graph = EmptyGraph
    /\ issues = NoIssues
    /\ reach = [reachable |-> {}, queue |-> <<>>]
    /\ gpc = "idle"
    /\ NoConversion

\* analyze_project_with_options without cache up to the parallel parse: the
\* project files are collected, one parse task per file is pending.
StartProject ==
    /\ pc = "idle"
    /\ project_files' \in collect_project_files(ProjectDisk(fs).files, acfg, options.production)
    /\ tasks' = [path \in Range(project_files') |-> "todo"]
    /\ results' = [path \in Range(project_files') |-> None]
    /\ pc' = "parsing"
    /\ UNCHANGED <<fs, mtimes, cachefile, hashed, runs, edits, cache>>
    /\ UNCHANGED gvars
    /\ UNCHANGED cvars
    /\ UNCHANGED xvars

\* Every task has returned: the imports are resolved under the order in which
\* the alias map is iterated, the graph is built and analysed.
FinishProject ==
    /\ pc = "parsing"
    /\ \A path \in DOMAIN tasks : tasks[path] \in {"parsed", "failed"}
    /\ \E paths \in IterationOrders(MergedPaths(acfg)) :
          graph' = BuildGraph(create_resolver(acfg, paths), ProjectDisk(fs), project_files,
                              find_entry_points(acfg, project_files), results)
    /\ issues' = AnalyzeIssues(graph', acfg, options)
    /\ pc' = "done"
    /\ UNCHANGED <<fs, mtimes, cachefile, hashed, runs, edits, project_files, cache, tasks,
                   results, acfg, options, reach, gpc>>
    /\ UNCHANGED cvars
    /\ UNCHANGED xvars

NextProject ==
    \/ StartProject
    \/ \E path \in DOMAIN fs : ParseFile(path)
    \/ FinishProject

SpecProject == InitProject /\ [][NextProject]_vars

\* The diagnostic lists of the finished run had the alias map been iterated in
\* the given order.
ProjectIssuesUnder(paths) ==
    AnalyzeIssues(BuildGraph(create_resolver(acfg, paths), ProjectDisk(fs), project_files,
                             find_entry_points(acfg, project_files), results),
                  acfg, options)

\* C11: two runs on the same files, configuration and options give the same
\* diagnostic lists in the same order: the lists of a finished run are the
\* lists under every order in which the alias map may be iterated, and under
\* every order in which the parse tasks returned.
C11_RunsAgree ==
    pc = "done" =>
        \A paths \in IterationOrders(MergedPaths(acfg)) : issues = ProjectIssuesUnder(paths)

\* The names a list of dependency diagnostics holds.
NamesOf(list) == {list[i].name : i \in 1..Len(list)}

\* The names of the list ascend.
NamesAscend(list) ==
    \A i, j \in 1..Len(list) : i < j => TextLess(list[i].name, list[j].name)

\* The manifest of the run, with empty sections when the project has none.
DeclaredIn(section) ==
    IF acfg.package_json = None THEN {}
    ELSE IF section = "dependencies" THEN acfg.package_json[1].dependencies
    ELSE IF section = "devDependencies" THEN acfg.package_json[1].dev_dependencies
    ELSE IF section = "peerDependencies" THEN acfg.package_json[1].peer_dependencies
    ELSE acfg.package_json[1].optional_dependencies

ImplicitRuntime ==
    {<<"typescript">>, TypesNode, Tslib, CoreJs, <<"regenerator", "-", "runtime">>}

\* The packages the imports recorded in the graph name.
GraphImportedPackages ==
    {graph.modules[path].imports[i].package_name[1] :
        <<path, i>> \in {<<q, j>> \in (DOMAIN graph.modules) \X (1..Len(IndexSpecifiers)) :
                            /\ j <= Len(graph.modules[q].imports)
                            /\ graph.modules[q].imports[j].package_name # None}}

\* The packages the import statements of the files on disk name.
SourceImportedPackages ==
    {get_package_name(Unwrap(fs[path].body)[i].src)[1] :
        <<path, i>> \in {<<q, j>> \in (DOMAIN fs) \X (1..Len(IndexSpecifiers)) :
                            /\ fs[q].body # None
                            /\ j <= Len(fs[q].body[1])
                            /\ fs[q].body[1][j].t = "Import"
                            /\ get_package_name(fs[q].body[1][j].src) # None}}

\* The set the unused-dependencies list is to hold.
ExpectedUnusedRuntime ==
    {name \in DeclaredIn("dependencies") :
        /\ name \notin get_used_packages(graph)
        /\ name \notin Range(acfg.config.ignore_dependencies)
        /\ name \notin ImplicitRuntime}

\* C12 as stated: the unused-dependencies list of a finished run holds exactly
\* the declared runtime dependencies that are not used, not ignored and not
\* implicit, and no package that a source file of the project imports.
C12_UnusedDependenciesNoImported ==
    pc = "done" =>
        /\ NamesOf(issues.dependencies) = ExpectedUnusedRuntime
        /\ Len(issues.dependencies) = Cardinality(ExpectedUnusedRuntime)
        /\ NamesOf(issues.dependencies) \cap SourceImportedPackages = {}

\* C12, amended: the unused-dependencies list of a finished run holds exactly
\* the declared runtime dependencies that are not used, not ignored and not
\* implicit, each once, and no package that an import recorded in the graph
\* names.
C12_UnusedDependenciesExact ==
    pc = "done" =>
        /\ NamesOf(issues.dependencies) = ExpectedUnusedRuntime
        /\ Len(issues.dependencies) = Cardinality(ExpectedUnusedRuntime)
        /\ NamesAscend(issues.dependencies)
        /\ NamesOf(issues.dependencies) \cap GraphImportedPackages = {}

\* The dependency fixture: lodash and left-pad declared, lodash and uuid
\* imported, left-pad reported.
C12_Witness ==
    /\ pc = "done"
    /\ DeclaredIn("dependencies") = {Lodash, LeftPad}
    /\ Lodash \in GraphImportedPackages
    /\ Uuid \in GraphImportedPackages
    /\ NamesOf(issues.dependencies) = {LeftPad}

\* C13: the unused dev-dependencies list of a finished run is empty in
\* production mode, and otherwise holds exactly the declared dev-dependencies
\* that are not used, not ignored, not implicit runtime dependencies and not
\* matched by the dev-tool heuristic.
C13_UnusedDevDependenciesExact ==
    pc = "done" =>
        NamesOf(issues.dev_dependencies) =
            IF options.production THEN {}
            ELSE {name \in DeclaredIn("devDependencies") :
                    /\ name \notin get_used_packages(graph)
                    /\ name \notin Range(acfg.config.ignore_dependencies)
                    /\ name \notin ImplicitRuntime
                    /\ ~is_dev_tool_dependency(name)}

\* The names that count as declared for the unlisted list.
DeclaredForUnlisted ==
    IF options.strict THEN DeclaredIn("dependencies")
    ELSE DeclaredIn("dependencies") \cup DeclaredIn("devDependencies")
            \cup DeclaredIn("peerDependencies") \cup DeclaredIn("optionalDependencies")

\* The set the unlisted list is to hold.
ExpectedUnlisted ==
    {name \in get_used_packages(graph) :
        /\ name \notin DeclaredForUnlisted
        /\ ~is_builtin_module(name)
        /\ ~StartsWith(name, <<"@", "types", "/">>)}

GraphImports ==
    {<<q, j>> \in (DOMAIN graph.modules) \X (1..Len(IndexSpecifiers)) :
        j <= Len(graph.modules[q].imports)}

IsRelative(specifier) ==
    StartsWith(specifier, <<".", "/">>) \/ StartsWith(specifier, <<".", ".", "/">>)

\* Whether the unresolved list is to hold the import.
ExpectedUnresolved(import) ==
    IF IsRelative(import.original.specifier) THEN import.resolved_path = None
    ELSE /\ import.package_name # None
         /\ import.package_name[1] \in
                DeclaredIn("dependencies") \cup DeclaredIn("devDependencies")
                    \cup DeclaredIn("peerDependencies") \cup DeclaredIn("optionalDependencies")
         /\ import.resolved_path = None
         /\ ~is_builtin_module(import.package_name[1])

\* C15: the unresolved list of a finished run holds an entry for every relative
\* import of the graph that did not resolve, with or without a manifest, and
\* for a non-relative import exactly when its package is declared, did not
\* resolve and is not built-in.
C15_UnresolvedExact ==
    pc = "done" =>
        Range(issues.unresolved) =
            {[path |-> x[1],
              specifier |-> graph.modules[x[1]].imports[x[2]].original.specifier,
              line |-> graph.modules[x[1]].imports[x[2]].original.line,
              col |-> graph.modules[x[1]].imports[x[2]].original.col] :
                x \in {y \in GraphImports :
                         ExpectedUnresolved(graph.modules[y[1]].imports[y[2]])}}

\* C20: in the graph of a finished run every import's resolved_path is absent
\* or a key of the modules map.
C20_ResolvedPathsAreKeys ==
    pc = "done" =>
        \A x \in GraphImports :
            \/ graph.modules[x[1]].imports[x[2]].resolved_path = None
            \/ graph.modules[x[1]].imports[x[2]].resolved_path[1] \in DOMAIN graph.modules

(***************************************************************************)
(* A Cache on its own: Cache::new on the document the cache directory      *)
(* holds, inserts, and the save when the Cache is dropped.  A document is  *)
(* [exists, readable, decoded]: decoded is what serde_json makes of the    *)
(* text, None when it is not a CacheData.                                  *)
(***************************************************************************)
NoDocument == [exists |-> FALSE, readable |-> FALSE, decoded |-> None]
UnreadableDocument == [exists |-> TRUE, readable |-> FALSE, decoded |-> None]
UndecodableDocument == [exists |-> TRUE, readable |-> TRUE, decoded |-> None]
Document(data) == [exists |-> TRUE, readable |-> TRUE, decoded |-> Some(data)]

\* Cache::new: exists, read_to_string and from_str on the cache file.
LoadDocument(doc) ==
    IF doc.exists /\ doc.readable THEN doc.decoded ELSE None

MaxInserts == 3

StorePaths == {PIndex, PU, PInner}

StoreEntry(content_hash, modified_time) ==
    [content_hash |-> content_hash, modified_time |-> modified_time,
     imports |-> <<>>, exports |-> <<>>, re_exports |-> <<>>]

StoreEntries == {StoreEntry(0, 1), StoreEntry(1, 2), StoreEntry(0, 2)}

\* The entries an earlier run left in the document.
StoredEntries ==
    (PIndex :> StoreEntry(1, 2)) @@ (PU :> StoreEntry(0, 1)) @@ (PInner :> StoreEntry(1, 2))

StoreDocuments ==
    {NoDocument, UnreadableDocument, UndecodableDocument,
     Document([version |-> CACHE_VERSION, entries |-> StoredEntries]),
     Document([version |-> CACHE_VERSION + 1, entries |-> StoredEntries]),
     Document([version |-> CACHE_VERSION - 1, entries |-> StoredEntries])}

StoreConfigs ==
    {[max_age |-> 0, max_entries |-> n] : n \in {0, 1, SmallMaxEntries, DefaultMaxEntries}}

InitStore ==
    /\ cachefile \in StoreDocuments
    /\ cache = None
    /\ fs = <<>>
    /\ mtimes = <<>>
    /\ hashed = [path \in PPaths |-> {}]
    /\ pc = "idle"
    /\ runs = 0
    /\ edits = 0
    /\ project_files = <<>>
    /\ tasks = <<>>
    /\ results = <<>>
    /\ graph = EmptyGraph
    /\ issues = NoIssues
    /\ acfg = GConfig(<<>>, {}, FALSE, FALSE)
    /\ options = DefaultOptions
    /\ reach = [reachable |-> {}, queue |-> <<>>]
    /\ gpc = "idle"
    /\ NoConversion

\* Cache::new: an error when the directory cannot be created, else a Cache.
OpenStore ==
    /\ call.op = "none"
    /\ \E config \in StoreConfigs, dir_created \in BOOLEAN :
        /\ cache' = IF dir_created THEN Some(CacheNew(LoadDocument(cachefile), config))
                    ELSE None
        /\ call' = [NoCall EXCEPT !.op = "new", !.ok = dir_created]
    /\ UNCHANGED <<parsed_module, cache_entry, rebuilt_module, cpc>>
    /\ UNCHANGED <<fs, mtimes, cachefile, hashed, pc, runs, edits, project_files, tasks,
                   results>>
    /\ UNCHANGED gvars
    /\ UNCHANGED xvars

\* Cache::insert
InsertEntry ==
    /\ call.op \in {"new", "insert"}
    /\ cache # None
    /\ call.n < MaxInserts
    /\ \E path \in StorePaths, entry \in StoreEntries :
        /\ \E c \in CacheInsert(cache[1], path, entry) : cache' = Some(c)
        /\ call' = [op |-> "insert", ok |-> TRUE, path |-> path, entry |-> Some(entry),
                    before |-> cache[1].data.entries, n |-> call.n + 1]
    /\ UNCHANGED <<parsed_module, cache_entry, rebuilt_module, cpc>>
    /\ UNCHANGED <<fs, mtimes, cachefile, hashed, pc, runs, edits, project_files, tasks,
                   results>>
    /\ UNCHANGED gvars
    /\ UNCHANGED xvars

\* The Cache is dropped: Cache::save writes the document when it is dirty.
DropStore ==
    /\ call.op \in {"new", "insert"}
    /\ cache # None
    /\ cachefile' = IF cache[1].dirty THEN Document(cache[1].data) ELSE cachefile
    /\ cache' = None
    /\ call' = [NoCall EXCEPT !.op = "drop"]
    /\ UNCHANGED <<parsed_module, cache_entry, rebuilt_module, cpc>>
    /\ UNCHANGED <<fs, mtimes, hashed, pc, runs, edits, project_files, tasks, results>>
    /\ UNCHANGED gvars
    /\ UNCHANGED xvars

NextStore ==
    \/ OpenStore
    \/ InsertEntry
    \/ DropStore

SpecStore == InitStore /\ [][NextStore]_vars

\* The map of the last insert right after the entry went in, before any eviction.
InsertedInto == With(call.before, call.path, call.entry[1])

\* The keys the last insert evicted.
Evicted == DOMAIN InsertedInto \ DOMAIN cache[1].data.entries

\* C16: after an insert the cache holds at most max_entries entries, what is
\* left is what the map held after the insertion, and no entry that is left
\* has a modified_time strictly smaller than that of an entry the insert
\* removed.
C16_EvictsOldest ==
    call.op = "insert" =>
        /\ Cardinality(DOMAIN cache[1].data.entries) <= cache[1].config.max_entries
        /\ DOMAIN cache[1].data.entries \subseteq DOMAIN InsertedInto
        /\ \A k \in DOMAIN cache[1].data.entries : cache[1].data.entries[k] = InsertedInto[k]
        /\ \A r \in Evicted : \A k \in DOMAIN cache[1].data.entries :
              ~(InsertedInto[k].modified_time < InsertedInto[r].modified_time)

\* An insert that evicted an entry and kept a newer one.
C16_Witness ==
    /\ call.op = "insert"
    /\ Evicted # {}
    /\ \E r \in Evicted : \E k \in DOMAIN cache[1].data.entries :
          InsertedInto[r].modified_time < InsertedInto[k].modified_time

\* C17 as stated: right after insert(path, entry), get(path) is the entry and
\* is_valid(path, entry.content_hash) holds.
C17_InsertThenGet ==
    call.op = "insert" =>
        /\ CacheGet(cache[1], call.path) = call.entry
        /\ is_valid(cache[1], call.path, call.entry[1].content_hash)

\* The eviction of the last insert cannot take the entry: the map is within
\* max_entries, or enough other entries are strictly older.
EntrySurvives ==
    \/ Cardinality(DOMAIN InsertedInto) <= cache[1].config.max_entries
    \/ Cardinality({k \in DOMAIN InsertedInto \ {call.path} :
                      InsertedInto[k].modified_time < call.entry[1].modified_time})
          >= Cardinality(DOMAIN InsertedInto) - cache[1].config.max_entries

\* C17, amended: right after an insert whose eviction cannot take the entry,
\* get(path) is the entry and is_valid(path, entry.content_hash) holds; and
\* whenever get(path) is not the entry, the insert evicted it.
C17_InsertThenGetUnlessEvicted ==
    call.op = "insert" =>
        /\ EntrySurvives =>
              /\ CacheGet(cache[1], call.path) = call.entry
              /\ is_valid(cache[1], call.path, call.entry[1].content_hash)
        /\ CacheGet(cache[1], call.path) # call.entry =>
              /\ call.path \in Evicted
              /\ ~is_valid(cache[1], call.path, call.entry[1].content_hash)

\* An insert over an entry of the same path with another hash, with an
\* eviction that takes another entry.
C17_Witness ==
    /\ call.op = "insert"
    /\ call.path \in DOMAIN call.before
    /\ call.before[call.path].content_hash # call.entry[1].content_hash
    /\ Evicted # {}
    /\ EntrySurvives
    /\ CacheGet(cache[1], call.path) = call.entry

\* Whether Cache::new finds a CacheData of the current version in the document.
DocumentIsCurrent ==
    /\ cachefile.exists
    /\ cachefile.readable
    /\ cachefile.decoded # None
    /\ cachefile.decoded[1].version = CACHE_VERSION

\* C18: Cache::new fails exactly when the directory cannot be created; on a
\* document that is unreadable, does not decode or has another version the
\* Cache it returns has no entries and is not dirty, and on a document of the
\* current version it has the document's entries.
C18_NewNeverFailsOnContent ==
    call.op = "new" =>
        /\ cache = None <=> ~call.ok
        /\ cache # None =>
              /\ ~cache[1].dirty
              /\ cache[1].data.version = CACHE_VERSION
              /\ cache[1].data.entries =
                    IF DocumentIsCurrent THEN cachefile.decoded[1].entries ELSE <<>>

\* Cache::new returned a Cache without entries on a document that decodes to
\* entries under another version.
C18_Witness ==
    /\ call.op = "new"
    /\ cachefile.decoded # None
    /\ cachefile.decoded[1].version # CACHE_VERSION
    /\ cachefile.decoded[1].entries # <<>>
    /\ cache # None
    /\ cache[1].data.entries = <<>>

\* Whether the task of the file, as the files are, fails to read or to parse.
ReadOrParseFails(path) ==
    \/ read_to_string(fs, path) = None
    \/ parse_source(fs[path], path) = None

\* What a step of the task of path does when the task returns.
TaskReturn(path) ==
    /\ tasks'[path] = "failed" <=>
          IF tasks[path] = "miss" THEN parse_source(fs[path], path) = None
          ELSE IF cache = None THEN ReadOrParseFails(path)
          ELSE read_to_string(fs, path) = None
    /\ tasks'[path] = "failed" =>
          /\ cache' = cache
          /\ cachefile' = cachefile
          /\ results'[path] = None
          /\ ReadOrParseFails(path)
    /\ \A other \in DOMAIN tasks \ {path} :
          tasks'[other] = tasks[other] /\ results'[other] = results[other]

\* C19: with and without cache, a task whose read or parse fails returns
\* nothing and writes no cache entry, the tasks of the other files are left as
\* they are, and the step that ends the run, taken whatever tasks failed,
\* yields a graph that holds every project file but those whose task failed.
C19_FailedFilesAreSkipped ==
    [][/\ \A path \in PPaths :
            (/\ pc = "parsing"
             /\ path \in DOMAIN tasks
             /\ tasks[path] \in {"todo", "miss"}
             /\ tasks'[path] # tasks[path])
            => TaskReturn(path)
       /\ (pc = "parsing" /\ pc' = "done")
          => /\ DOMAIN graph'.modules =
                   {path \in Range(project_files) : tasks[path] # "failed"}
             /\ \A path \in DOMAIN graph'.modules : results[path] # None]_vars

\* A finished run with cache in which one file was dropped because it could
\* not be read, another was parsed and stored, and the graph holds the other
\* files.
C19_Witness ==
    /\ pc = "done"
    /\ \E path \in DOMAIN tasks :
          /\ tasks[path] = "failed"
          /\ read_to_string(fs, path) = None
          /\ path \notin DOMAIN graph.modules
    /\ \E path \in DOMAIN tasks : tasks[path] = "hit"
    /\ DOMAIN graph.modules = Range(project_files) \ {PU}

(***************************************************************************)
(* The graph of a finished run of the pipeline.                            *)
(***************************************************************************)

\* C21: in the graph of a finished run every import of every module has a
\* resolved_path that is a key of the modules map, or no resolved_path, or a
\* package_name.
C21_ImportsInsideOrExternal ==
    pc = "done" =>
        \A q \in DOMAIN graph.modules :
            \A j \in DOMAIN graph.modules[q].imports :
                \/ graph.modules[q].imports[j].resolved_path = None
                \/ graph.modules[q].imports[j].resolved_path[1] \in DOMAIN graph.modules
                \/ graph.modules[q].imports[j].package_name # None

(***************************************************************************)
(* Projects that differ in the files the entry points are chosen from:     *)
(*   /p/src/index.ts   missing, scenario 1's index, or a syntax error      *)
(*   /p/src/u.ts       scenario 1's u, type declarations, a syntax error,  *)
(*                     or not UTF-8                                        *)
(*   /p/index.ts       missing, or export const x = 1;                     *)
(*   /p/lib/a.ts       missing, export const x = 1; or import "uuid";      *)
(* under configurations that differ in the entry globs and the manifest's  *)
(* main.                                                                   *)
(***************************************************************************)
PRootIndex == <<"/", "p", "/", "index", ".", "ts">>
PLibA == <<"/", "p", "/", "lib", "/", "a", ".", "ts">>

\* The files that may be there or not, each with the texts it may hold.
OptionalFile(path, texts) == {<<>>} \cup {path :> src : src \in texts}

\* export enum E { A }
\* export interface I {}
\* export type T = number;
\* export namespace N {}
\* export const v = 1;
SrcUTypes ==
    [text |-> 11, utf8 |-> TRUE, uses_ts |-> TRUE, uses_jsx |-> FALSE,
     body |-> Some(<<
        [t |-> "ExportDecl", decl |-> [t |-> "TsEnum", ident |-> "E"], line |-> 1, col |-> 1],
        [t |-> "ExportDecl", decl |-> [t |-> "TsInterface", ident |-> "I"],
         line |-> 2, col |-> 1],
        [t |-> "ExportDecl", decl |-> [t |-> "TsTypeAlias", ident |-> "T"],
         line |-> 3, col |-> 1],
        [t |-> "ExportDecl", decl |-> [t |-> "TsModule", ident |-> "N"],
         line |-> 4, col |-> 1],
        ConstDecl("v", 5, 1)>>)]

EntrySources ==
    {index @@ (PU :> u) @@ root_index @@ lib_a :
        index \in OptionalFile(PIndex, {SrcIndexNamed, SrcUBroken}),
        u \in {SrcUAB, SrcUTypes, SrcUBroken, SrcULatin1},
        root_index \in OptionalFile(PRootIndex, {SrcUX}),
        lib_a \in OptionalFile(PLibA, {SrcUX, SrcTestUuid})}

\* config.entry: none; two globs, the later directory first; one file; a glob
\* that no file matches.
EntryGlobs ==
    {<<>>,
     <<(<<"src", "/", "*", ".", "ts">>), (<<"lib", "/", "*", ".", "ts">>)>>,
     <<(<<"src", "/", "u", ".", "ts">>)>>,
     <<(<<"dist", "/", "*", ".", "ts">>)>>}

\* The manifest: none, or one with the main field absent or naming a file, or
\* one that declares two packages.
EntryManifests ==
    {None, Some(PackageJson({}, {}, {}, {})), Some(PackageJson({Uuid, LeftPad}, {}, {}, {}))}
        \cup {Some([PackageJson({}, {}, {}, {}) EXCEPT !.main = Some(main)]) :
                main \in {<<"src", "/", "u", ".", "ts">>, <<"index", ".", "ts">>}}

EntryConfig(entry, package_json) ==
    [root |-> Root,
     config |-> [entry |-> entry, project |-> <<>>, paths |-> {}, ignore |-> <<>>,
                 ignore_files |-> <<>>, ignore_dependencies |-> <<>>,
                 ignore_exports |-> {},
                 ignore_exports_used_in_file |-> FALSE,
                 include_entry_exports |-> FALSE],
     tsconfig |-> None,
     package_json |-> package_json]

InitEntries ==
    /\ fs \in EntrySources
    /\ \E entry \in EntryGlobs, package_json \in EntryManifests :
          acfg = EntryConfig(entry, package_json)
    /\ options = DefaultOptions
    /\ mtimes = [path \in DOMAIN fs |-> 1]
    /\ cachefile = None
    /\ hashed = [path \in PPaths |-> {}]
    /\ pc = "idle"
    /\ runs = 0
    /\ edits = 0
    /\ project_files = <<>>
    /\ cache = None
    /\ tasks = <<>>
    /\ results = <<>>
    /\ graph = EmptyGraph
    /\ issues = NoIssues
    /\ reach = [reachable |-> {}, queue |-> <<>>]
    /\ gpc = "idle"
    /\ NoConversion

\* A run without cache on one of these projects.
SpecEntries == InitEntries /\ [][NextProject]_vars

\* C22: in the graph of a finished run every entry point is a key of the
\* modules map, whatever became of the parse of the files chosen as entries.
C22_EntryPointsAreKeys ==
    pc = "done" => Range(graph.entry_points) \subseteq DOMAIN graph.modules

\* The project files, in the run's order, that an entry glob matches.
RECURSIVE GlobMatches(_, _)
GlobMatches(pattern, files) ==
    IF files = <<>> THEN <<>>
    ELSE (IF GlobIsMatch(pattern, RelativeTo(Root, Head(files))) THEN <<Head(files)>>
          ELSE <<>>)
         \o GlobMatches(pattern, Tail(files))

\* The matches of the entry globs, glob after glob.
RECURSIVE MatchesInDeclarationOrder(_)
MatchesInDeclarationOrder(globs) ==
    IF globs = <<>> THEN <<>>
    ELSE GlobMatches(Head(globs), project_files) \o MatchesInDeclarationOrder(Tail(globs))

\* The default entries that are project files, as their places in the list.
DefaultsPresent ==
    {i \in 1..Len(DEFAULT_ENTRIES) : PathJoin(Root, DEFAULT_ENTRIES[i]) \in Range(project_files)}

\* The first default entry that is a project file, when there is one.
FirstDefaultPresent ==
    IF DefaultsPresent = {} THEN <<>>
    ELSE <<PathJoin(Root, DEFAULT_ENTRIES[CHOOSE i \in DefaultsPresent :
                                              \A j \in DefaultsPresent : i <= j])>>

\* The manifest's main as a path, when it is a project file.
DiscoveredMain ==
    IF /\ acfg.package_json # None
       /\ acfg.package_json[1].main # None
       /\ PathJoin(Root, acfg.package_json[1].main[1]) \in Range(project_files)
    THEN <<PathJoin(Root, acfg.package_json[1].main[1])>>
    ELSE <<>>

\* The entries with the main appended unless they hold it.
MainAppended(entries, main) ==
    IF Range(main) \subseteq Range(entries) THEN entries ELSE entries \o main

\* C24: the entry points of a finished run are, when the configuration has entry
\* globs, the project files the globs match, glob after glob, and otherwise the
\* first default entry that is a project file, if any; then the manifest's main
\* when it is a project file that is not among them.
C24_EntriesFromGlobsElseDefaults ==
    pc = "done" =>
        graph.entry_points =
            MainAppended(IF acfg.config.entry # <<>>
                         THEN MatchesInDeclarationOrder(acfg.config.entry)
                         ELSE FirstDefaultPresent,
                         DiscoveredMain)

\* The export of the graph a diagnostic of an unused-export list names.
ReportedExports(diagnostic) ==
    {e \in Range(graph.modules[diagnostic.path].exports) :
        /\ e.name = diagnostic.name
        /\ e.line = diagnostic.line
        /\ e.col = diagnostic.col}

\* An export that is to be reported on the types list.
IsTypeExport(export) == export.is_type \/ export.kind \in {EK_Type, EK_Interface, EK_Enum}

\* C23: in a finished run every entry of the types list names an export whose
\* is_type flag is true or whose kind is Type, Interface or Enum, and every
\* entry of the exports list names an export that is neither: an unused enum
\* is on the types list and not on the exports list.
C23_TypeExportsOnTypesList ==
    pc = "done" =>
        /\ \A i \in DOMAIN issues.types :
              \A e \in ReportedExports(issues.types[i]) : IsTypeExport(e)
        /\ \A i \in DOMAIN issues.exports :
              \A e \in ReportedExports(issues.exports[i]) : ~IsTypeExport(e)

(***************************************************************************)
(* config/loader.rs and config/schema.rs.  A configuration file is a text  *)
(* on disk: [text, utf8, json], json being the object the text decodes to  *)
(* once its comments are stripped, as a function from the keys it writes   *)
(* to their values, or None when the text does not decode to a Config.     *)
(***************************************************************************)
CONFIG_FILES ==
    <<(<<"pior", ".", "json">>), (<<"pior", ".", "jsonc">>), (<<".", "piorrc">>),
      (<<".", "piorrc", ".", "json">>)>>

\* config/schema.rs: default_true
default_true == TRUE

\* Config::default(), derived: every field is its type's Default.
ConfigDefault ==
    [entry |-> <<>>, project |-> <<>>, paths |-> {}, ignore |-> <<>>,
     ignore_files |-> <<>>, ignore_dependencies |-> <<>>, ignore_exports |-> {},
     ignore_exports_used_in_file |-> FALSE,
     include_entry_exports |-> FALSE]

\* A field under #[serde(default)] or #[serde(default = "...")]: the value the
\* object writes for the key, the default when it leaves the key out.
Field(object, key, default) == IF key \in DOMAIN object THEN object[key] ELSE default

\* serde's Deserialize for Config, keys in camelCase.
DeserializeConfig(object) ==
    [entry |-> Field(object, "entry", <<>>),
     project |-> Field(object, "project", <<>>),
     paths |-> Field(object, "paths", {}),
     ignore |-> Field(object, "ignore", <<>>),
     ignore_files |-> Field(object, "ignoreFiles", <<>>),
     ignore_dependencies |-> Field(object, "ignoreDependencies", <<>>),
     ignore_exports |-> Field(object, "ignoreExports", {}),
     ignore_exports_used_in_file |-> Field(object, "ignoreExportsUsedInFile", default_true),
     include_entry_exports |-> Field(object, "includeEntryExports", FALSE)]

\* serde_json::from_str on the stripped text: None is the error.
DecodeConfig(content) ==
    IF content = None \/ content[1].json = None THEN None
    ELSE Some(DeserializeConfig(content[1].json[1]))

\* config/loader.rs: load_config_file
load_config_file(files, path) == DecodeConfig(read_to_string(files, path))

\* config/loader.rs: find_and_load_config over the names still to try.
RECURSIVE FindConfig(_, _, _)
FindConfig(files, root, names) ==
    IF names = <<>> THEN Some(ConfigDefault)
    ELSE IF PathJoin(root, Head(names)) \in DOMAIN files
    THEN load_config_file(files, PathJoin(root, Head(names)))
    ELSE FindConfig(files, root, Tail(names))

find_and_load_config(files, root) == FindConfig(files, root, CONFIG_FILES)

\* config/loader.rs: load_config without a --config path, in a root that holds
\* no tsconfig and no manifest; None is the error.
ResolvedOf(root, config) ==
    IF config = None THEN None
    ELSE Some([root |-> root, config |-> config[1], tsconfig |-> None, package_json |-> None])

load_config(files, root) == ResolvedOf(root, find_and_load_config(files, root))

(***************************************************************************)
(* Scenario 1 under the configuration files a root may hold.               *)
(***************************************************************************)
ConfigText(text, json) == [text |-> text, utf8 |-> TRUE, json |-> json]

\* {}
CfgEmpty == ConfigText(12, Some(<<>>))

\* { "ignoreExportsUsedInFile": false }
CfgUsedInFileOff == ConfigText(13, Some("ignoreExportsUsedInFile" :> FALSE))

\* { "ignoreExportsUsedInFile": true, "includeEntryExports": true }
CfgUsedInFileOn ==
    ConfigText(14, Some(("ignoreExportsUsedInFile" :> TRUE) @@ ("includeEntryExports" :> TRUE)))

\* { "entry": ["src/u.ts"] }
CfgEntryU == ConfigText(15, Some("entry" :> <<(<<"src", "/", "u", ".", "ts">>)>>))

\* { "ignoreExportsUsedInFile": "yes" }
CfgMistyped == ConfigText(80, None)

ConfigDisks ==
    {Scenario1 @@ pior_json @@ pior_jsonc @@ piorrc @@ piorrc_json :
        pior_json \in OptionalFile(PathJoin(Root, CONFIG_FILES[1]),
                                   {CfgEmpty, CfgUsedInFileOff, CfgUsedInFileOn, CfgEntryU,
                                    CfgMistyped}),
        pior_jsonc \in OptionalFile(PathJoin(Root, CONFIG_FILES[2]), {CfgUsedInFileOff}),
        piorrc \in OptionalFile(PathJoin(Root, CONFIG_FILES[3]), {CfgEmpty, CfgUsedInFileOn}),
        piorrc_json \in OptionalFile(PathJoin(Root, CONFIG_FILES[4]), {CfgEntryU})}

InitConfig ==
    /\ fs \in ConfigDisks
    /\ acfg = GConfig(<<>>, {}, FALSE, FALSE)
    /\ options = DefaultOptions
    /\ mtimes = [path \in DOMAIN fs |-> 1]
    /\ cachefile = None
    /\ hashed = [path \in PPaths |-> {}]
    /\ pc = "start"
    /\ runs = 0
    /\ edits = 0
    /\ project_files = <<>>
    /\ cache = None
    /\ tasks = <<>>
    /\ results = <<>>
    /\ graph = EmptyGraph
    /\ issues = NoIssues
    /\ reach = [reachable |-> {}, queue |-> <<>>]
    /\ gpc = "idle"
    /\ NoConversion

\* What the caller of load_config goes on with.
Loaded(resolved) ==
    IF resolved = None
    THEN pc' = "error" /\ UNCHANGED acfg
    ELSE pc' = "idle" /\ acfg' = resolved[1]

\* The command line loads the configuration of the root before the analysis.
LoadConfig ==
    /\ pc = "start"
    /\ Loaded(load_config(fs, Root))
    /\ UNCHANGED <<fs, mtimes, cachefile, hashed, runs, edits, project_files, cache, tasks,
                   results, graph, reach, gpc, options, issues>>
    /\ UNCHANGED cvars
    /\ UNCHANGED xvars

NextConfig ==
    \/ LoadConfig
    \/ NextProject

SpecConfig == InitConfig /\ [][NextConfig]_vars

\* The configuration file find_and_load_config reads, when the root holds one.
ConfigFilesFound == {i \in DOMAIN CONFIG_FILES : PathJoin(Root, CONFIG_FILES[i]) \in DOMAIN fs}

ConfigFileRead ==
    fs[PathJoin(Root, CONFIG_FILES[CHOOSE i \in ConfigFilesFound :
                                       \A j \in ConfigFilesFound : i <= j])]

\* The user has set ignoreExportsUsedInFile: the file that is read writes the key.
UserSetUsedInFile ==
    /\ ConfigFilesFound # {}
    /\ ConfigFileRead.json # None
    /\ "ignoreExportsUsedInFile" \in DOMAIN ConfigFileRead.json[1]

\* C26: once the configuration is loaded, ignore_exports_used_in_file is true
\* unless the user has set it: when the root holds no configuration file, and
\* when the file that is read leaves the key out.
C26_UsedInFileDefaultsTrue ==
    (pc \notin {"start", "error"} /\ ~UserSetUsedInFile)
        => acfg.config.ignore_exports_used_in_file

\* The same, for the loads that read a configuration file.
C26_UsedInFileDefaultsTrueInFile ==
    (pc \notin {"start", "error"} /\ ~UserSetUsedInFile /\ ConfigFilesFound # {})
        => acfg.config.ignore_exports_used_in_file

(***************************************************************************)
(* A ModuleResolver on its own: resolve is called once, on a specifier and *)
(* an importing file, over the disks that hold some of                     *)
(*   /p/src/u.ts  /p/src/a/u.ts  /p/src/b/u.ts  /p/src/lodash.ts           *)
(*   /p/node_modules/u/index.js  /p/node_modules/lodash/index.js           *)
(* with or without a base URL and under a few alias maps.                  *)
(***************************************************************************)
PSrcLodash == <<"/", "p", "/", "src", "/", "lodash", ".", "ts">>
PInstalledU == <<"/", "p", "/", "node_modules", "/", "u", "/", "index", ".", "js">>
PDeepIndex == <<"/", "p", "/", "src", "/", "a", "/", "index", ".", "ts">>

ResolverDisks ==
    {[files |-> files, manifests |-> <<>>] :
        files \in SUBSET {PU, PAliasA, PAliasB, PSrcLodash, PInstalledU, PInstalledLodash}}

Alias(pattern, replacements) == [pattern |-> pattern, replacements |-> replacements]

\* No aliases; a wildcard alias; an alias that matches relative specifiers; an
\* exact alias whose first replacement is not on any disk; an alias that
\* matches every specifier and whose replacement is not on any disk.
ResolverAliases ==
    {<<>>,
     <<Alias(<<"@", "app", "/", "*">>, <<(<<"src", "/", "a", "/", "*">>)>>)>>,
     <<Alias(<<".", "/", "*">>, <<(<<"src", "/", "b", "/", "*">>)>>)>>,
     <<Alias(<<"u">>, <<(<<"missing", "/", "u">>), (<<"src", "/", "b", "/", "u">>)>>)>>,
     <<Alias(<<"*">>, <<(<<"missing", "/", "*">>)>>)>>}

Resolvers ==
    {[root |-> Root, base_url |-> base_url, paths |-> paths] :
        base_url \in {None, Some(<<"/", "p", "/", "src">>)}, paths \in ResolverAliases}

ResolverSpecifiers ==
    {<<".", "/", "u">>, <<".", ".", "/", "u">>, <<"/", "p", "/", "src", "/", "u">>, <<"u">>,
     <<"@", "app", "/", "u">>, Lodash}

InitResolve ==
    /\ \E r \in Resolvers, fsys \in ResolverDisks, specifier \in ResolverSpecifiers,
          from \in {PIndex, PDeepIndex} :
          resolution = Some([resolver |-> r, fsys |-> fsys, specifier |-> specifier,
                             from |-> from, returned |-> FALSE, result |-> None])
    /\ lock = None
    /\ parsed_module = None
    /\ cache_entry = None
    /\ rebuilt_module = None
    /\ cpc = "idle"
    /\ call = NoCall
    /\ graph = EmptyGraph
    /\ reach = [reachable |-> {}, queue |-> <<>>]
    /\ gpc = "idle"
    /\ acfg = GConfig(<<>>, {}, FALSE, FALSE)
    /\ options = DefaultOptions
    /\ issues = NoIssues
    /\ NoProject

\* What the call leaves.
Returned(q, result) == Some([q EXCEPT !.returned = TRUE, !.result = result])

\* resolve is called on the specifier and the importing file.
Resolve ==
    /\ resolution # None
    /\ ~resolution[1].returned
    /\ resolution' = Returned(resolution[1],
                              resolve(resolution[1].resolver, resolution[1].fsys,
                                      resolution[1].specifier, resolution[1].from))
    /\ UNCHANGED lock
    /\ UNCHANGED gvars
    /\ UNCHANGED pvars
    /\ UNCHANGED cvars

NextResolve == Resolve

SpecResolve == InitResolve /\ [][NextResolve]_vars

\* The result the steps give when they are tried in the order alias, relative,
\* absolute, base URL, node_modules: alias is what the alias step returns.
InStepOrder(r, fsys, specifier, from, alias, result) ==
    /\ alias # None => result = alias
    /\ (alias = None /\ IsRelative(specifier))
          => result = resolve_relative(r, fsys, specifier, from)
    /\ (alias = None /\ ~IsRelative(specifier) /\ StartsWith(specifier, <<"/">>))
          => result = resolve_absolute(r, fsys, specifier)
    /\ (alias = None /\ ~IsRelative(specifier) /\ ~StartsWith(specifier, <<"/">>))
          => \/ /\ r.base_url # None
                /\ resolve_from_base(r, fsys, specifier, r.base_url[1]) # None
                /\ result = resolve_from_base(r, fsys, specifier, r.base_url[1])
             \/ /\ r.base_url # None =>
                      resolve_from_base(r, fsys, specifier, r.base_url[1]) = None
                /\ result = resolve_node_modules(r, fsys, specifier, from)

ResolvedInStepOrder(q) ==
    InStepOrder(q.resolver, q.fsys, q.specifier, q.from,
                resolve_path_alias(q.resolver, q.fsys, q.specifier), q.result)

\* C28: resolve returns the hit of the first step that has one, the steps taken
\* in the order path alias, relative, absolute, base URL, node_modules: when no
\* alias replacement is found the later steps decide, also for a specifier that
\* matches an alias pattern, and a relative or absolute specifier that is not
\* found is unresolved whatever the base URL and node_modules hold.
C28_FirstHitInStepOrder ==
    (resolution # None /\ resolution[1].returned) => ResolvedInStepOrder(resolution[1])

\* A relative specifier that matches an alias pattern whose replacement is not
\* found, that is not found beside the importing file, and that the base URL
\* would resolve: the call returned unresolved.
C28_Witness ==
    /\ resolution # None
    /\ resolution[1].returned
    /\ IsRelative(resolution[1].specifier)
    /\ \E i \in DOMAIN resolution[1].resolver.paths :
          match_path_pattern(resolution[1].resolver.paths[i].pattern,
                             resolution[1].specifier) # None
    /\ resolution[1].resolver.base_url # None
    /\ resolve_from_base(resolution[1].resolver, resolution[1].fsys, resolution[1].specifier,
                         resolution[1].resolver.base_url[1]) # None
    /\ resolution[1].result = None

(***************************************************************************)
(* The worklist of get_reachable_files, iteration by iteration.            *)
(***************************************************************************)
\* The loop goes on as long as the queue holds a path, and returns when it is
\* empty: the function is sequential code that nothing suspends.
SpecGraphFair == SpecGraph /\ WF_vars(ReachIterate) /\ WF_vars(ReachReturn)

\* The pushes an iteration makes: what the queue holds beyond the paths it
\* held below the popped one.
Pushed == SubSeq(reach'.queue, Len(reach.queue), Len(reach'.queue))

\* C29: a call of get_reachable_files returns, on every graph of the family,
\* those with import cycles and self-imports included; an iteration pops one
\* path, a path that was popped before is passed over without a push, and a
\* path that was not is recorded as reachable before its imports and
\* re-exports are pushed, so that no module is expanded twice.
C29_WorklistTerminates ==
    /\ (gpc = "reach") ~> (gpc = "reached")
    /\ [][(gpc = "reach" /\ gpc' = "reach")
          => /\ Front(reach.queue) = SubSeq(reach'.queue, 1, Len(reach.queue) - 1)
             /\ IF Last(reach.queue) \in reach.reachable
                THEN reach'.reachable = reach.reachable /\ Pushed = <<>>
                ELSE /\ reach'.reachable = reach.reachable \cup {Last(reach.queue)}
                     /\ Range(Pushed) \cap reach'.reachable = {}]_vars

\* The traversal has returned on a graph in which index and u.test import each
\* other and inner imports itself, all three entered.
C29_Witness ==
    /\ gpc = "reached"
    /\ \E i \in DOMAIN graph.modules[PIndex].imports :
          graph.modules[PIndex].imports[i].resolved_path = Some(PTest)
    /\ \E i \in DOMAIN graph.modules[PTest].imports :
          graph.modules[PTest].imports[i].resolved_path = Some(PIndex)
    /\ PLib \in DOMAIN graph.modules
    /\ \E i \in DOMAIN graph.modules[PLib].imports :
          graph.modules[PLib].imports[i].resolved_path = Some(PLib)
    /\ reach.reachable = {PIndex, PTest, PLib}

\* The export is named by an import of the module at importer.
NamedByImportOf(importer, path, export) ==
    \E i \in DOMAIN graph.modules[importer].imports :
        /\ graph.modules[importer].imports[i].resolved_path = Some(path)
        /\ \/ export.name \in ImportUses(graph.modules[importer].imports[i])
           \/ "*" \in ImportUses(graph.modules[importer].imports[i])

\* The package is imported by the module at importer.
PackageImportedBy(importer, package) ==
    \E i \in DOMAIN graph.modules[importer].imports :
        graph.modules[importer].imports[i].package_name = Some(package)

\* C30: in a finished run an export that an import of any module of the graph
\* names, a module reached from the entry points or not, is on neither unused
\* list, and a declared package that any module of the graph imports is not on
\* the unused-dependencies list.
C30_UsageFromEveryModule ==
    pc = "done" =>
        \A importer \in DOMAIN graph.modules :
            /\ \A path \in DOMAIN graph.modules :
                  \A export \in Range(graph.modules[path].exports) :
                     NamedByImportOf(importer, path, export)
                        => /\ \A i \in DOMAIN issues.exports :
                                 ~(issues.exports[i].path = path
                                   /\ issues.exports[i].name = export.name)
                           /\ \A i \in DOMAIN issues.types :
                                 ~(issues.types[i].path = path
                                   /\ issues.types[i].name = export.name)
            /\ \A package \in DeclaredIn("dependencies") :
                  PackageImportedBy(importer, package)
                     => package \notin NamesOf(issues.dependencies)

\* A finished run entered at u.ts only: index.ts and lib/a.ts are not reached,
\* index.ts imports a, which is not reported while b is, and lib/a.ts imports
\* uuid, which is declared and not reported while left-pad is.
C30_Witness ==
    /\ pc = "done"
    /\ graph.entry_points = <<PU>>
    /\ get_reachable_files(graph) = {PU}
    /\ PIndex \in DOMAIN graph.modules
    /\ NamedByImportOf(PIndex, PU, MkExport("a", EK_Const, FALSE, FALSE, 1, 1))
    /\ PLibA \in DOMAIN graph.modules
    /\ PackageImportedBy(PLibA, Uuid)
    /\ {issues.exports[i].name : i \in DOMAIN issues.exports} = {"b"}
    /\ NamesOf(issues.dependencies) = {LeftPad}
    /\ {PIndex, PLibA} \subseteq Range(issues.files)

\* ---------------------------------------------------------------------------
\* The cache entry of a file across runs (graph/builder.rs, cache/store.rs).
\* ---------------------------------------------------------------------------

\* The hash a cache holds for a path, None when the path has no entry.
StoredHash(c, path) ==
    IF path \in DOMAIN c.data.entries
    THEN Some(c.data.entries[path].content_hash)
    ELSE None

\* The hash of the text the path has now.
CurrentHash(path) == compute_content_hash(fs[path])

\* A task of a cache-enabled run leaves the lookup of a file it has read.
LeavesLookup(path) ==
    /\ pc = "parsing"
    /\ cache # None
    /\ path \in DOMAIN tasks
    /\ tasks[path] = "todo"
    /\ tasks'[path] # "todo"
    /\ read_to_string(fs, path) # None

\* A task of a cache-enabled run leaves the parser after a miss.
LeavesParser(path) ==
    /\ pc = "parsing"
    /\ cache # None
    /\ path \in DOMAIN tasks
    /\ tasks[path] = "miss"
    /\ tasks'[path] # "miss"

\* A cache-enabled run starts.
RunLoadsCache ==
    /\ pc \in {"idle", "done"}
    /\ pc' = "parsing"
    /\ cache' # None

\* A cache-enabled run ends.
RunSavesCache ==
    /\ pc = "parsing"
    /\ pc' = "done"
    /\ cache # None

\* C25: in a cache-enabled run a file that was read goes to the parser exactly
\* when the cache has no entry for it or the entry's hash is not the hash of
\* its current text, and otherwise its entry is reused and nothing is stored;
\* a miss only makes the task parse the current text, and the entry it stores
\* carries the current hash; when the run ends every file that was reused or
\* parsed and has an entry in the saved cache has the hash of its current
\* text there; and the next run starts from the entries the cache file holds.
C25_EntryFollowsContentHash ==
    [][/\ \A path \in PPaths :
             /\ LeavesLookup(path)
                   => /\ (tasks'[path] = "miss")
                            = (StoredHash(cache[1], path) # Some(CurrentHash(path)))
                      /\ (tasks'[path] = "hit")
                            = (StoredHash(cache[1], path) = Some(CurrentHash(path)))
                      /\ cache' = cache
             /\ LeavesParser(path)
                   => /\ tasks'[path] = (IF parse_source(fs[path], path) # None
                                         THEN "parsed" ELSE "failed")
                      /\ tasks'[path] = "parsed"
                            => /\ results'[path] = parse_source(fs[path], path)
                               /\ StoredHash(cache'[1], path)
                                     \in {None, Some(CurrentHash(path))}
                      /\ tasks'[path] = "failed" => cache' = cache
       /\ RunSavesCache
             => \A path \in DOMAIN tasks :
                   (/\ tasks[path] \in {"hit", "parsed"}
                    /\ cachefile' # None
                    /\ path \in DOMAIN cachefile'[1].entries)
                   => cachefile'[1].entries[path].content_hash = CurrentHash(path)
       /\ (RunLoadsCache /\ cachefile # None)
             => cache'[1].data.entries = cachefile[1].entries]_vars

\* The second run has ended: one file was reused, and another, edited between
\* the runs, was parsed again and has the hash of its new text in the saved
\* cache.
C25_Witness ==
    /\ pc = "done"
    /\ runs = 2
    /\ cachefile # None
    /\ \E path \in DOMAIN tasks : tasks[path] = "hit"
    /\ \E path \in DOMAIN tasks :
          /\ tasks[path] = "parsed"
          /\ Cardinality(hashed[path]) = 2
          /\ path \in DOMAIN cachefile[1].entries
          /\ cachefile[1].entries[path].content_hash = CurrentHash(path)

\* ---------------------------------------------------------------------------
\* The parse tasks and the cache mutex (graph/builder.rs:
\* build_graph_with_options). A task of a cache-enabled run is at one of
\*   "todo"      not started
\*   "lookup"    holds the mutex, inside the lookup block
\*   "hit"       returned the cached module
\*   "miss"      left the lookup block without a module, about to parse
\*   "unstored"  parsed its text, waits for the mutex to insert the entry
\*   "insert"    holds the mutex, about to insert
\*   "parsed"    returned the parsed module
\*   "failed"    returned nothing
\* No code runs that can panic while the mutex is held, so the mutex is never
\* poisoned and lock() returns a guard whenever the mutex is free.
\* ---------------------------------------------------------------------------

\* The task has read its file and hashed it, and takes the mutex for the
\* lookup; a file that cannot be read is dropped without the mutex.
LockedForLookup(path, content) ==
    IF content = None
    THEN /\ tasks' = [tasks EXCEPT ![path] = "failed"]
         /\ UNCHANGED lock
    ELSE /\ lock = None
         /\ lock' = Some(path)
         /\ tasks' = [tasks EXCEPT ![path] = "lookup"]

\* let cache_guard = cache_mutex.lock().ok()?
TaskLockLookup(path) ==
    /\ pc = "parsing"
    /\ IsSome(cache)
    /\ path \in DOMAIN tasks
    /\ tasks[path] = "todo"
    /\ LockedForLookup(path, read_to_string(fs, path))
    /\ UNCHANGED <<fs, mtimes, cachefile, hashed, pc, runs, edits, project_files, cache,
                   results, resolution>>
    /\ UNCHANGED gvars
    /\ UNCHANGED cvars

\* A task that drops the guard of the lookup block only when it returns the
\* cached module.
LookupReleased_on_hit_only(path, hit) ==
    /\ LookedUp(path, hit)
    /\ lock' = IF hit # None THEN None ELSE lock

\* The end of the lookup block: the guard is dropped on both ways out.
LookupReleased(path, hit) ==
    /\ LookedUp(path, hit)
    /\ lock' = None

\* The lookup block: cache_guard.get(path) and the comparison of the hashes.
TaskLookup(path) ==
    /\ pc = "parsing"
    /\ IsSome(cache)
    /\ lock = Some(path)
    /\ tasks[path] = "lookup"
    /\ LookupReleased(path, CachedParse(Unwrap(cache), path, compute_content_hash(fs[path])))
    /\ UNCHANGED <<fs, mtimes, cachefile, hashed, pc, runs, edits, project_files, cache,
                   resolution>>
    /\ UNCHANGED gvars
    /\ UNCHANGED cvars

\* The arms of the match on parse_source.
ParsedUnstored(path, parsed) ==
    IF parsed # None
    THEN /\ tasks' = [tasks EXCEPT ![path] = "unstored"]
         /\ results' = [results EXCEPT ![path] = parsed]
    ELSE /\ tasks' = [tasks EXCEPT ![path] = "failed"]
         /\ UNCHANGED results

\* crate::parser::parse_source(&content, path) and CacheEntry::from_parsed
TaskParse(path) ==
    /\ pc = "parsing"
    /\ IsSome(cache)
    /\ path \in DOMAIN tasks
    /\ tasks[path] = "miss"
    /\ ParsedUnstored(path, parse_source(fs[path], path))
    /\ UNCHANGED <<fs, mtimes, cachefile, hashed, pc, runs, edits, project_files, cache>>
    /\ UNCHANGED gvars
    /\ UNCHANGED cvars
    /\ UNCHANGED xvars

\* if let Ok(mut cache_guard) = cache_mutex.lock()
TaskLockInsert(path) ==
    /\ pc = "parsing"
    /\ IsSome(cache)
    /\ path \in DOMAIN tasks
    /\ tasks[path] = "unstored"
    /\ lock = None
    /\ lock' = Some(path)
    /\ tasks' = [tasks EXCEPT ![path] = "insert"]
    /\ UNCHANGED <<fs, mtimes, cachefile, hashed, pc, runs, edits, project_files, cache,
                   results, resolution>>
    /\ UNCHANGED gvars
    /\ UNCHANGED cvars

\* The entry a task stores for the module it parsed.
EntryOfParsed(path, parsed) ==
    from_parsed(compute_content_hash(fs[path]), get_modified_time(mtimes, path),
                parsed.imports, parsed.exports, parsed.re_exports)

\* cache_guard.insert(path.clone(), entry), the drop of the guard and the
\* return of the module.
TaskInsert(path) ==
    /\ pc = "parsing"
    /\ IsSome(cache)
    /\ lock = Some(path)
    /\ tasks[path] = "insert"
    /\ \E c \in CacheInsert(Unwrap(cache), path, EntryOfParsed(path, results[path][1])) :
          cache' = Some(c)
    /\ hashed' = [hashed EXCEPT ![path] = @ \cup {fs[path].text}]
    /\ tasks' = [tasks EXCEPT ![path] = "parsed"]
    /\ lock' = None
    /\ UNCHANGED <<fs, mtimes, cachefile, pc, runs, edits, project_files, results,
                   resolution>>
    /\ UNCHANGED gvars
    /\ UNCHANGED cvars

\* A step of one parse task.
TaskStep(path) ==
    \/ TaskLockLookup(path)
    \/ TaskLookup(path)
    \/ TaskParse(path)
    \/ TaskLockInsert(path)
    \/ TaskInsert(path)
    \/ ParseFile(path)

NextTasks ==
    \/ StartRun
    \/ \E path \in PPaths : TaskLockLookup(path)
    \/ \E path \in PPaths : TaskLookup(path)
    \/ \E path \in PPaths : TaskParse(path)
    \/ \E path \in PPaths : TaskLockInsert(path)
    \/ \E path \in PPaths : TaskInsert(path)
    \/ \E path \in PPaths : ParseFile(path)
    \/ FinishRun
    \/ \E path \in PPaths : WriteFile(path)
    \/ \E path \in PPaths : DeleteFile(path)
    \/ \E path \in PPaths : TouchFile(path)

SpecTasks == Init /\ [][NextTasks]_vars

\* The tasks are scheduled by the thread pool until each has returned: a task
\* that can take a step is not left waiting for ever.
SpecTasksFair == SpecTasks /\ WF_vars(\E path \in PPaths : TaskStep(path))

\* Every task of the run has returned.
AllReturned == \A path \in DOMAIN tasks : tasks[path] \in {"hit", "parsed", "failed"}

\* One whole task run alone from a cache and the modules returned so far: the
\* caches and modules it can leave (the eviction of an insert chooses among
\* entries of equal age).
SequentialTask(s, path) ==
    IF read_to_string(fs, path) = None
    THEN {s}
    ELSE IF CachedParse(s.cache, path, compute_content_hash(fs[path])) # None
    THEN {[s EXCEPT !.results[path] =
                        CachedParse(s.cache, path, compute_content_hash(fs[path]))]}
    ELSE IF parse_source(fs[path], path) = None
    THEN {s}
    ELSE {[cache |-> c, results |-> [s.results EXCEPT ![path] = parse_source(fs[path], path)]] :
             c \in CacheInsert(s.cache, path,
                               EntryOfParsed(path, parse_source(fs[path], path)[1]))}

RECURSIVE SequentialFrom(_, _, _)
\* The tasks of order[i..] run one after the other from each state of S.
SequentialFrom(S, order, i) ==
    IF i > Len(order)
    THEN S
    ELSE SequentialFrom(UNION {SequentialTask(s, order[i]) : s \in S}, order, i + 1)

\* What the run's cache and modules are before any task has started.
BeforeTasks ==
    [cache |-> CacheNew(cachefile, cache[1].config),
     results |-> [path \in Range(project_files) |-> None]]

\* The outcomes of running the tasks one at a time in the given order.
SequentialRun(order) == SequentialFrom({BeforeTasks}, order, 1)

\* No insert of the run can evict: the cache has room for every entry it
\* holds and every file of the run.
RoomForAll ==
    Cardinality(DOMAIN BeforeTasks.cache.data.entries \cup Range(project_files))
        <= cache[1].config.max_entries

\* A step takes or drops the mutex only at the two blocks of a task.
LockDiscipline ==
    /\ lock' # lock
          => \/ /\ lock = None
                /\ \E path \in DOMAIN tasks :
                      /\ lock' = Some(path)
                      /\ \/ tasks[path] = "todo" /\ tasks'[path] = "lookup"
                         \/ tasks[path] = "unstored" /\ tasks'[path] = "insert"
             \/ /\ lock' = None
                /\ \E path \in DOMAIN tasks :
                      /\ lock = Some(path)
                      /\ \/ tasks[path] = "lookup" /\ tasks'[path] \in {"hit", "miss"}
                         \/ tasks[path] = "insert" /\ tasks'[path] = "parsed"
    /\ \A path \in PPaths :
          (/\ pc = "parsing"
           /\ cache # None
           /\ path \in DOMAIN tasks
           /\ tasks[path] = "miss"
           /\ tasks'[path] # "miss")
          => /\ lock # Some(path)
             /\ lock' = lock
             /\ cache' = cache
    /\ cache' # cache /\ pc = "parsing" /\ pc' = "parsing"
          => \E path \in DOMAIN tasks : lock = Some(path) /\ tasks[path] = "insert"

\* C27: under every interleaving of the parse tasks of a cache-enabled run the
\* mutex is taken by a task once for the lookup and, after a miss that parsed,
\* once more for the insert, it is never held while a text is parsed, and the
\* cache changes only under it; while tasks are pending one of them can take a
\* step, and under fair scheduling every task returns; and when all have
\* returned the modules and the cache are an outcome of running the same
\* tasks one at a time in some order, in every order when no insert can evict.
C27_TasksSerialize ==
    /\ [][LockDiscipline]_vars
    /\ [](/\ lock # None => /\ pc = "parsing"
                            /\ cache # None
                            /\ tasks[lock[1]] \in {"lookup", "insert"}
          /\ \A path \in DOMAIN tasks :
                tasks[path] \in {"lookup", "insert"} => lock = Some(path)
          /\ (pc = "parsing" /\ cache # None /\ ~AllReturned)
                => \/ lock # None
                   \/ \E path \in DOMAIN tasks : tasks[path] \in {"todo", "miss", "unstored"})
    /\ [](pc = "parsing" /\ cache # None /\ AllReturned
             => /\ lock = None
                /\ \E order \in IterationOrders(Range(project_files)) :
                      [cache |-> cache[1], results |-> results] \in SequentialRun(order)
                /\ RoomForAll
                      => \A order \in IterationOrders(Range(project_files)) :
                            SequentialRun(order) = {[cache |-> cache[1], results |-> results]})
    /\ (pc = "parsing") ~> AllReturned

\* All three tasks of a run have returned under a cache that holds two
\* entries: one was served from the cache, one parsed and stored, and the
\* outcome is not that of every order.
C27_Witness ==
    /\ pc = "parsing"
    /\ cache # None
    /\ lock = None
    /\ AllReturned
    /\ \E path \in DOMAIN tasks : tasks[path] = "hit"
    /\ \E path \in DOMAIN tasks : tasks[path] = "parsed"
    /\ ~RoomForAll
    /\ \E order \in IterationOrders(Range(project_files)) :
          [cache |-> cache[1], results |-> results] \notin SequentialRun(order)

=============================================================================
